---------------------------- MODULE Spec2Model ----------------------------
(***************************************************************************)
(* State-machine models of the integration adapters of the repository.     *)
(* Every adapter is an independent machine over its own variables; one     *)
(* specification per adapter (SpecDeconz, SpecHeos, ...) steps only that   *)
(* adapter and leaves the variables of the others alone.                   *)
(***************************************************************************)
EXTENDS Integers, Sequences, FiniteSets, TLC

VARIABLES
    \* ---- deCONZ sensor platform (components/deconz/sensor.py)
    dz_sensors,      \* the sensors of gateway.api.sensors
    dz_battery,      \* sensor.battery of every sensor (an optional value)
    dz_setup,        \* async_setup_entry has run
    dz_allow_clip,   \* gateway.option_allow_clip_sensor
    batteries,       \* the set `batteries` of async_setup_entry
    dz_trackers,     \* DeconzBatteryHandler._trackers, counted per sensor
    dz_callbacks,    \* tracker callbacks registered on each sensor
    dz_added,        \* entities handed to async_add_entities, counted
    dz_events,       \* gateway.events, counted per sensor
    dz_queue,        \* NEW_SENSOR signals dispatched and not yet delivered
    \* ---- HEOS media player (components/heos/media_player.py)
    heos_added,      \* the entity is added to the hub
    _signals,        \* HeosMediaPlayer._signals: the disconnect callables
    heos_connected,  \* the entity's handlers connected, counted per signal
    _source_manager, \* HeosMediaPlayer._source_manager
    _media_position_updated_at,
    _supported_features,
    heos_player,     \* the vendor player: its play state and controls
    heos_now,        \* utcnow()
    heos_hub_state,  \* the state of the entity last written to the hub
    heos_result,     \* how the last command or handler ended
    \* ---- TotalConnect alarm panel (components/totalconnect)
    tc_status,       \* the armed status the vendor client holds
    tc_state,        \* TotalConnectAlarm._state
    tc_attr,         \* _device_state_attributes["triggered_source"]
    \* ---- Tesla lock and climate (components/tesla)
    tesla_device,    \* the vendor devices: lock state, goal temperature, hvac
    tesla_lock_state,          \* TeslaLock._state
    tesla_target_temperature,  \* TeslaThermostat._target_temperature
    \* ---- the last call into the TotalConnect or Tesla entities
    cmd_result,
    \* ---- Z-Wave dimmer (components/zwave/light.py)
    _refresh_value,  \* ZwaveDimmer._refresh_value (CONF_REFRESH_VALUE)
    zw_primary,      \* values.primary.data: the level the device reports
    zw_dimming_duration,  \* values.dimming_duration: None, or its data
    _brightness,     \* ZwaveDimmer._brightness
    zw_state,        \* ZwaveDimmer._state
    _refreshing,     \* ZwaveDimmer._refreshing
    _timer,          \* ZwaveDimmer._timer: None or the Timer last created
    zw_timers,       \* the Timer threads: none, waiting or running
    zw_pc,           \* where the thread running value_changed is
    zw_pending,      \* refreshes of the primary value the device has to answer
    zw_writer,       \* the thread that wrote _refreshing and _timer last
    zw_last,         \* the last call of an entity method and how it ended
    \* ---- Rachio controller binary sensor (components/rachio/binary_sensor.py)
    rachio_phase,    \* the entity is new, added to the hub, or removed
    rachio_state,    \* RachioControllerBinarySensor._state
    rachio_connected,  \* connections of _handle_any_update to the signal
    rachio_scheduled,  \* schedule_update_ha_state() is pending
    rachio_hub_state,  \* the entity's state in the hub
    rachio_last,     \* the last step and what it did to the entity
    \* ---- MQTT entity availability (components/mqtt, MqttAvailability)
    mqtt_config,     \* availability_topic, payload_available, payload_not_available
    mqtt_setup,      \* the entity is set up
    mqtt_available,  \* MqttAvailability._available
    mqtt_state,      \* the entity's own state, from its state topic
    mqtt_hub_state,  \* the entity's state in the hub
    mqtt_last,        \* the last message and its topic
    \* ---- MQTT discovery (components/mqtt/discovery.py, MqttDiscoveryUpdate)
    disc_entities,  \* the entity discovered under each discovery id, if any
    disc_states,  \* the entity ids that have a state in the hub
    disc_device_registry,  \* the device registry's entries
    disc_entity_registry,  \* the entity registry's entries, by unique id
    disc_last,  \* the last discovery message and what it did
    \* ---- Fan entities (components/fan/__init__.py) and the ZHA fan of tests/components/zha/test_fan.py
    fan_speed,  \* each fan entity's speed property
    fan_available,  \* each fan entity's availability
    fan_hub,  \* each fan's state and speed attribute in the hub
    fan_last,  \* the last step, its entity and its outcome
    \* ---- Rachio config flow (components/rachio/config_flow.py)
    flow_entries,  \* the unique ids (API keys) of the config entries
    flow_result,  \* what the last step returned to the framework
    flow_last,  \* the last step and its inputs
    \* ---- The Z-Wave conversions applied to an input (brightness_state, byte_to_zwave_brightness, _set_duration)
    conv_fn,  \* the function applied last
    conv_arg,  \* its input
    conv_out,  \* its result
    \* ---- Huawei LTE sensors
    hl_data,  \* router.data[key][item] of each sensor, if any
    hl_state,  \* _state of each sensor
    hl_unit,  \* _unit of each sensor, if set
    hl_available,  \* _available of each sensor
    hl_subscriptions,  \* router.subscriptions, by key
    hl_added,  \* the sensors that are added to the hub
    hl_last,  \* the last operation and what it raised
    \* ---- Fan services (components/fan/__init__.py)
    fan_call  \* the last service method of a fan, its speed argument and what it delegated to

dzVars == <<dz_sensors, dz_battery, dz_setup, dz_allow_clip, batteries,
            dz_trackers, dz_callbacks, dz_added, dz_events, dz_queue>>

heosVars == <<heos_added, _signals, heos_connected, _source_manager,
              _media_position_updated_at, _supported_features, heos_player,
              heos_now, heos_hub_state, heos_result>>

tcVars == <<tc_status, tc_state, tc_attr>>

teslaVars == <<tesla_device, tesla_lock_state, tesla_target_temperature>>

zwVars == <<_refresh_value, zw_primary, zw_dimming_duration, _brightness,
            zw_state, _refreshing, _timer, zw_timers, zw_pc, zw_pending,
            zw_writer, zw_last>>

rachioVars == <<rachio_phase, rachio_state, rachio_connected,
                rachio_scheduled, rachio_hub_state, rachio_last>>

mqttVars == <<mqtt_config, mqtt_setup, mqtt_available, mqtt_state,
              mqtt_hub_state, mqtt_last>>

discVars == <<disc_entities, disc_states, disc_device_registry, disc_entity_registry, disc_last>>

fanVars == <<fan_speed, fan_available, fan_hub, fan_last>>

flowVars == <<flow_entries, flow_result, flow_last>>

convVars == <<conv_fn, conv_arg, conv_out>>

hlVars == <<hl_data, hl_state, hl_unit, hl_available, hl_subscriptions, hl_added, hl_last>>

fsvcVars == <<fan_call>>

vars == <<dzVars, heosVars, tcVars, teslaVars, cmd_result, zwVars,
          rachioVars, mqttVars,
      discVars,
      fanVars,
      flowVars,
      convVars,
      hlVars,
      fsvcVars>>

\* What each adapter leaves alone.
dzOthers ==
    <<heosVars, tcVars, teslaVars, cmd_result, zwVars, rachioVars, mqttVars,
      discVars,
      fanVars,
      flowVars,
      convVars,
      hlVars,
      fsvcVars>>
heosOthers ==
    <<dzVars, tcVars, teslaVars, cmd_result, zwVars, rachioVars, mqttVars,
      discVars,
      fanVars,
      flowVars,
      convVars,
      hlVars,
      fsvcVars>>
tcOthers == <<dzVars, heosVars, teslaVars, zwVars, rachioVars, mqttVars,
      discVars,
      fanVars,
      flowVars,
      convVars,
      hlVars,
      fsvcVars>>
teslaOthers == <<dzVars, heosVars, tcVars, zwVars, rachioVars, mqttVars,
      discVars,
      fanVars,
      flowVars,
      convVars,
      hlVars,
      fsvcVars>>
zwOthers ==
    <<dzVars, heosVars, tcVars, teslaVars, cmd_result, rachioVars, mqttVars,
      discVars,
      fanVars,
      flowVars,
      convVars,
      hlVars,
      fsvcVars>>
rachioOthers ==
    <<dzVars, heosVars, tcVars, teslaVars, cmd_result, zwVars, mqttVars,
      discVars,
      fanVars,
      flowVars,
      convVars,
      hlVars,
      fsvcVars>>
mqttOthers ==
    <<dzVars, heosVars, tcVars, teslaVars, cmd_result, zwVars, rachioVars,
      discVars,
      fanVars,
      flowVars,
      convVars,
      hlVars,
      fsvcVars>>
discOthers ==
    <<dzVars, heosVars, tcVars, teslaVars, cmd_result, zwVars, rachioVars, mqttVars,
      fanVars,
      flowVars,
      convVars,
      hlVars,
      fsvcVars>>
fanOthers ==
    <<dzVars, heosVars, tcVars, teslaVars, cmd_result, zwVars, rachioVars, mqttVars, discVars,
      flowVars,
      convVars,
      hlVars,
      fsvcVars>>
flowOthers ==
    <<dzVars, heosVars, tcVars, teslaVars, cmd_result, zwVars, rachioVars, mqttVars, discVars, fanVars,
      convVars,
      hlVars,
      fsvcVars>>
convOthers ==
    <<dzVars, heosVars, tcVars, teslaVars, cmd_result, zwVars, rachioVars, mqttVars, discVars, fanVars, flowVars,
      hlVars,
      fsvcVars>>
hlOthers ==
    <<dzVars, heosVars, tcVars, teslaVars, cmd_result, zwVars, rachioVars, mqttVars, discVars, fanVars, flowVars, convVars,
      fsvcVars>>
fsvcOthers ==
    <<dzVars, heosVars, tcVars, teslaVars, cmd_result, zwVars, rachioVars, mqttVars, discVars, fanVars, flowVars, convVars, hlVars>>

\* An optional value: None is the empty tuple, a present value v is <<v>>.
None == <<>>
Some(v) == <<v>>

-----------------------------------------------------------------------------
(***************************************************************************)
(* deCONZ sensors: async_setup_entry, async_add_sensor, the battery        *)
(* trackers and their handler.                                             *)
(***************************************************************************)

\* Bounds of the deCONZ model.
MaxTrackers == 3
MaxQueue == 2

\* The sensors of the gateway and what the adapter reads of each.
Sensors == {"s1", "s2", "s3"}

\* sensor.type / sensor.BINARY, reduced to the classes async_add_sensor tells
\* apart: a switch (Switch.ZHATYPE), a CLIP switch, a binary sensor, a
\* thermostat, or any other sensor.
SensorKind(s) ==
    CASE s = "s1" -> "clip_switch"
      [] s = "s2" -> "sensor"
      [] s = "s3" -> "binary"

\* DeconzDevice.serial: sensors s2 and s3 are two resources of one device.
Serial(s) ==
    CASE s = "s1" -> "d1"
      [] s = "s2" -> "d2"
      [] s = "s3" -> "d2"

\* DeconzBattery.unique_id
BatteryUniqueId(s) == Serial(s) \o "-battery"

\* The battery values a sensor reports: unset, 0 and a level.
BatteryValues == {None, Some(0), Some(50)}

\* Python truth of sensor.battery: None and 0 are false.
BatteryIsSet(b) == b # None /\ b[1] # 0

\* The entities async_add_sensor can hand to async_add_entities, each with the
\* `new` argument of the call that created it.
DeconzEntities ==
    [cls : {"DeconzSensor", "DeconzBattery"}, sensor : Sensors, new : BOOLEAN]

\* The state async_add_sensor works on.
DzState ==
    [batteries |-> batteries, trackers |-> dz_trackers,
     callbacks |-> dz_callbacks, added |-> dz_added, events |-> dz_events]

\* DeconzBatteryHandler.create_tracker: a new DeconzSensorStateTracker, which
\* registers its callback on the sensor, is added to _trackers.
create_tracker(st, s) ==
    [st EXCEPT !.trackers[s] = @ + 1, !.callbacks[s] = @ + 1]

\* DeconzBatteryHandler.remove_tracker: the first tracker of the sensor found
\* is closed (its callback removed from the sensor) and dropped.
remove_tracker(st, s) ==
    IF st.trackers[s] > 0
    THEN [st EXCEPT !.trackers[s] = @ - 1, !.callbacks[s] = @ - 1]
    ELSE st

\* A variant of the loop body that adds a battery entity for new sensors only.
AddOneNewOnly(st, s, new, allowClip) ==
    LET k == SensorKind(s)
        st1 == IF new /\ k \in {"switch", "clip_switch"}
               THEN IF allowClip \/ k # "clip_switch"
                    THEN [st EXCEPT !.events[s] = @ + 1]
                    ELSE st
               ELSE IF new /\ k # "binary" /\ k # "thermostat"
               THEN [st EXCEPT
                       !.added[[cls |-> "DeconzSensor", sensor |-> s,
                                new |-> new]] = @ + 1]
               ELSE st
    IN  IF BatteryIsSet(dz_battery[s])
        THEN IF BatteryUniqueId(s) \notin st1.batteries /\ new
             THEN remove_tracker(
                    [st1 EXCEPT
                       !.batteries = @ \cup {BatteryUniqueId(s)},
                       !.added[[cls |-> "DeconzBattery", sensor |-> s,
                                new |-> new]] = @ + 1],
                    s)
             ELSE st1
        ELSE create_tracker(st1, s)

\* A variant of the loop body that creates the sensor entity or the event
\* whatever `new` is.
AddOneSensorAlways(st, s, new, allowClip) ==
    LET k == SensorKind(s)
        st1 == IF k \in {"switch", "clip_switch"}
               THEN IF allowClip \/ k # "clip_switch"
                    THEN [st EXCEPT !.events[s] = @ + 1]
                    ELSE st
               ELSE IF k # "binary" /\ k # "thermostat"
               THEN [st EXCEPT
                       !.added[[cls |-> "DeconzSensor", sensor |-> s,
                                new |-> new]] = @ + 1]
               ELSE st
    IN  IF BatteryIsSet(dz_battery[s])
        THEN IF BatteryUniqueId(s) \notin st1.batteries
             THEN remove_tracker(
                    [st1 EXCEPT
                       !.batteries = @ \cup {BatteryUniqueId(s)},
                       !.added[[cls |-> "DeconzBattery", sensor |-> s,
                                new |-> new]] = @ + 1],
                    s)
             ELSE st1
        ELSE create_tracker(st1, s)

\* A variant of the loop body that does not look the unique id up in
\* batteries.
AddOneNoBatteryCheck(st, s, new, allowClip) ==
    LET k == SensorKind(s)
        st1 == IF new /\ k \in {"switch", "clip_switch"}
               THEN IF allowClip \/ k # "clip_switch"
                    THEN [st EXCEPT !.events[s] = @ + 1]
                    ELSE st
               ELSE IF new /\ k # "binary" /\ k # "thermostat"
               THEN [st EXCEPT
                       !.added[[cls |-> "DeconzSensor", sensor |-> s,
                                new |-> new]] = @ + 1]
               ELSE st
    IN  IF BatteryIsSet(dz_battery[s])
        THEN remove_tracker(
               [st1 EXCEPT
                  !.batteries = @ \cup {BatteryUniqueId(s)},
                  !.added[[cls |-> "DeconzBattery", sensor |-> s,
                           new |-> new]] = @ + 1],
               s)
        ELSE create_tracker(st1, s)

\* The body of async_add_sensor's loop for one sensor.
AddOne(st, s, new, allowClip) ==
    LET k == SensorKind(s)
        st1 == IF new /\ k \in {"switch", "clip_switch"}
               THEN IF allowClip \/ k # "clip_switch"
                    THEN [st EXCEPT !.events[s] = @ + 1]
                    ELSE st
               ELSE IF new /\ k # "binary" /\ k # "thermostat"
               THEN [st EXCEPT
                       !.added[[cls |-> "DeconzSensor", sensor |-> s,
                                new |-> new]] = @ + 1]
               ELSE st
    IN  IF BatteryIsSet(dz_battery[s])
        THEN IF BatteryUniqueId(s) \notin st1.batteries
             THEN remove_tracker(
                    [st1 EXCEPT
                       !.batteries = @ \cup {BatteryUniqueId(s)},
                       !.added[[cls |-> "DeconzBattery", sensor |-> s,
                                new |-> new]] = @ + 1],
                    s)
             ELSE st1
        ELSE create_tracker(st1, s)

\* async_add_sensor(sensors, new): the loop over the sensors.
RECURSIVE async_add_sensor(_, _, _, _)
async_add_sensor(st, sensors, new, allowClip) ==
    IF sensors = <<>>
    THEN st
    ELSE async_add_sensor(AddOne(st, Head(sensors), new, allowClip),
                          Tail(sensors), new, allowClip)

\* The trackers async_add_sensor would create for the sensors.
RECURSIVE Unset(_)
Unset(sensors) ==
    IF sensors = <<>> THEN 0
    ELSE (IF BatteryIsSet(dz_battery[Head(sensors)]) THEN 0 ELSE 1)
         + Unset(Tail(sensors))

TotalTrackers == dz_trackers["s1"] + dz_trackers["s2"] + dz_trackers["s3"]

DzCommit(st) ==
    /\ batteries' = st.batteries
    /\ dz_trackers' = st.trackers
    /\ dz_callbacks' = st.callbacks
    /\ dz_added' = st.added
    /\ dz_events' = st.events

\* The orders in which a set of sensors can be iterated.
Orders(S) ==
    {q \in [1..Cardinality(S) -> S] : \A i, j \in 1..Cardinality(S) :
                                         q[i] = q[j] => i = j}

DzInit ==
    /\ dz_sensors = {}
    /\ dz_battery = [s \in Sensors |-> None]
    /\ dz_setup = FALSE
    /\ dz_allow_clip \in BOOLEAN
    /\ batteries = {}
    /\ dz_trackers = [s \in Sensors |-> 0]
    /\ dz_callbacks = [s \in Sensors |-> 0]
    /\ dz_added = [e \in DeconzEntities |-> 0]
    /\ dz_events = [s \in Sensors |-> 0]
    /\ dz_queue = <<>>

\* Before the platform is set up the gateway has loaded some sensors.
DzGatewayLoad(s, b) ==
    /\ ~dz_setup
    /\ s \notin dz_sensors
    /\ dz_sensors' = dz_sensors \cup {s}
    /\ dz_battery' = [dz_battery EXCEPT ![s] = b]
    /\ UNCHANGED <<dz_setup, dz_allow_clip, batteries, dz_trackers,
                   dz_callbacks, dz_added, dz_events, dz_queue>>
    /\ UNCHANGED dzOthers

\* async_setup_entry: async_add_sensor(gateway.api.sensors.values()).
DzSetupEntry(order) ==
    /\ ~dz_setup
    /\ dz_setup' = TRUE
    /\ DzCommit(async_add_sensor(DzState, order, TRUE, dz_allow_clip))
    /\ UNCHANGED <<dz_sensors, dz_battery, dz_allow_clip, dz_queue>>
    /\ UNCHANGED dzOthers

\* The gateway learns of a new sensor and dispatches NEW_SENSOR with it; the
\* dispatcher calls async_add_sensor([sensor]) later, from the event loop.
DzNewSensor(s, b) ==
    /\ dz_setup
    /\ s \notin dz_sensors
    /\ Len(dz_queue) < MaxQueue
    /\ dz_sensors' = dz_sensors \cup {s}
    /\ dz_battery' = [dz_battery EXCEPT ![s] = b]
    /\ dz_queue' = Append(dz_queue, [sensors |-> <<s>>, new |-> TRUE])
    /\ UNCHANGED <<dz_setup, dz_allow_clip, batteries, dz_trackers,
                   dz_callbacks, dz_added, dz_events>>
    /\ UNCHANGED dzOthers

\* DeconzSensorStateTracker.async_update_callback, run once for every tracker
\* callback registered on the sensor: with "battery" among the changed keys
\* each sends NEW_SENSOR with ([sensor], False).
RECURSIVE TrackerSignals(_, _)
TrackerSignals(s, n) ==
    IF n = 0 THEN <<>>
    ELSE Append(TrackerSignals(s, n - 1), [sensors |-> <<s>>, new |-> FALSE])

async_update_callback(s, batteryChanged) ==
    IF batteryChanged THEN TrackerSignals(s, dz_callbacks[s]) ELSE <<>>

\* The device reports an update of a sensor: its changed keys hold "battery"
\* (and then the battery value is the reported one) or not.
DzSensorUpdate(s, batteryChanged, b) ==
    /\ s \in dz_sensors
    /\ batteryChanged \/ b = dz_battery[s]
    /\ Len(dz_queue) + Len(async_update_callback(s, batteryChanged)) <= MaxQueue
    /\ dz_battery' = [dz_battery EXCEPT ![s] = b]
    /\ dz_queue' = dz_queue \o async_update_callback(s, batteryChanged)
    /\ UNCHANGED <<dz_sensors, dz_setup, dz_allow_clip, batteries, dz_trackers,
                   dz_callbacks, dz_added, dz_events>>
    /\ UNCHANGED dzOthers

\* The dispatcher delivers the oldest NEW_SENSOR signal to async_add_sensor.
DzDeliver ==
    /\ dz_queue # <<>>
    /\ TotalTrackers + Unset(Head(dz_queue).sensors) <= MaxTrackers
    /\ DzCommit(async_add_sensor(DzState, Head(dz_queue).sensors,
                                 Head(dz_queue).new, dz_allow_clip))
    /\ dz_queue' = Tail(dz_queue)
    /\ UNCHANGED <<dz_sensors, dz_battery, dz_setup, dz_allow_clip>>
    /\ UNCHANGED dzOthers

DzNext ==
    \/ \E s \in Sensors, b \in BatteryValues : DzGatewayLoad(s, b)
    \/ \E order \in Orders(dz_sensors) : DzSetupEntry(order)
    \/ \E s \in Sensors, b \in BatteryValues : DzNewSensor(s, b)
    \/ \E s \in Sensors, c \in BOOLEAN, b \in BatteryValues :
          DzSensorUpdate(s, c, b)
    \/ DzDeliver


\* A NEW_SENSOR signal announcing sensor s as new is still to be delivered.
DzPendingNew(s) ==
    \E i \in 1..Len(dz_queue) : dz_queue[i] = [sensors |-> <<s>>, new |-> TRUE]

\* async_add_sensor has been called with sensor s.
DzPassed(s) == dz_setup /\ s \in dz_sensors /\ ~DzPendingNew(s)

\* Every sensor passed to async_add_sensor has a battery entity under its
\* unique id or a tracker waiting for its battery state.
DzTrackedOrAdded ==
    \A s \in Sensors :
        DzPassed(s) => BatteryUniqueId(s) \in batteries \/ dz_trackers[s] >= 1

\* A call of async_add_sensor with a sensor whose battery is unset creates a
\* tracker for it.
DzUnsetCreatesTracker ==
    \A s \in Sensors :
        (/\ DzDeliver
         /\ Head(dz_queue).sensors = <<s>>
         /\ ~BatteryIsSet(dz_battery[s]))
        => /\ dz_trackers'[s] = dz_trackers[s] + 1
           /\ dz_callbacks'[s] = dz_callbacks[s] + 1

\* An update with "battery" among the changed keys of a tracked sensor sends
\* the new-device signal with ([sensor], False).
DzTrackerSignals ==
    \A s \in Sensors :
        (/\ \E b \in BatteryValues : DzSensorUpdate(s, TRUE, b)
         /\ dz_trackers[s] >= 1)
        => /\ Len(dz_queue') > Len(dz_queue)
           /\ \A i \in (Len(dz_queue) + 1)..Len(dz_queue') :
                 dz_queue'[i] = [sensors |-> <<s>>, new |-> FALSE]

\* The signal of a sensor whose battery is set by then adds a DeconzBattery
\* for it, unless its unique id was added before.
DzSignalAddsBattery ==
    \A s \in Sensors :
        (/\ DzDeliver
         /\ Head(dz_queue) = [sensors |-> <<s>>, new |-> FALSE]
         /\ BatteryIsSet(dz_battery[s])
         /\ BatteryUniqueId(s) \notin batteries)
        => /\ BatteryUniqueId(s) \in batteries'
           /\ dz_added'[[cls |-> "DeconzBattery", sensor |-> s, new |-> FALSE]]
                = dz_added[[cls |-> "DeconzBattery", sensor |-> s,
                            new |-> FALSE]] + 1

\* C1: a sensor passed to async_add_sensor while its battery is unset gets a
\* tracker; when it later reports an update with "battery" among the changed
\* keys, the tracker sends the new-device signal with new=False, and with the
\* battery set that signal makes async_add_sensor add a DeconzBattery for the
\* sensor, provided no battery entity with the same unique id was added
\* before. Until then the sensor keeps a tracker.
C1_BatteryPromotion ==
    /\ []DzTrackedOrAdded
    /\ [][DzUnsetCreatesTracker /\ DzTrackerSignals /\ DzSignalAddsBattery]_vars

\* C1 witness: a sensor first passed with its battery unset has been promoted
\* by a new=False signal: its battery entity exists and its tracker is gone.
C1_Witness ==
    \E s \in Sensors :
        /\ dz_added[[cls |-> "DeconzBattery", sensor |-> s, new |-> FALSE]] = 1
        /\ dz_trackers[s] = 0
        /\ BatteryIsSet(dz_battery[s])

\* The entities of a class handed to async_add_entities for a sensor.
DzAddedCount(cls, s) ==
    dz_added[[cls |-> cls, sensor |-> s, new |-> TRUE]]
    + dz_added[[cls |-> cls, sensor |-> s, new |-> FALSE]]

\* A NEW_SENSOR signal about sensor s is still to be delivered.
DzPending(s) ==
    \E i \in 1..Len(dz_queue) : dz_queue[i].sensors = <<s>>

\* C16: a call of async_add_sensor with new=False creates no DeconzSensor and
\* no DeconzEvent; with every sensor announced as new once, each sensor has
\* at most one DeconzSensor or one DeconzEvent whatever battery reports come.
C16_BatterySignalNoDuplicates ==
    /\ [](\A s \in Sensors :
             /\ dz_added[[cls |-> "DeconzSensor", sensor |-> s,
                          new |-> FALSE]] = 0
             /\ DzAddedCount("DeconzSensor", s) + dz_events[s] <= 1)
    /\ [][(DzDeliver /\ ~Head(dz_queue).new)
          => /\ dz_events' = dz_events
             /\ \A s \in Sensors :
                   DzAddedCount("DeconzSensor", s)' = DzAddedCount("DeconzSensor", s)]_vars

\* C16 witness: a sensor with a DeconzSensor entity got its battery entity
\* from a new=False call and still has the one DeconzSensor.
C16_Witness ==
    /\ dz_added[[cls |-> "DeconzBattery", sensor |-> "s2", new |-> FALSE]] = 1
    /\ DzAddedCount("DeconzSensor", "s2") = 1

\* C17: once a sensor has reported a battery value, a battery entity exists
\* for its unique id and no signal about it is in flight, no tracker and no
\* tracker callback remains on the sensor, also for sensors sharing a serial.
C17_NoTrackerWithBattery ==
    \A s \in Sensors :
        (/\ DzPassed(s)
         /\ BatteryIsSet(dz_battery[s])
         /\ BatteryUniqueId(s) \in batteries
         /\ ~DzPending(s))
        => dz_trackers[s] = 0 /\ dz_callbacks[s] = 0

\* The DeconzBattery entities handed to async_add_entities under a unique
\* id, over the sensors S.
RECURSIVE DzBatteryCount(_, _)
DzBatteryCount(uid, S) ==
    IF S = {} THEN 0
    ELSE LET s == CHOOSE x \in S : TRUE
         IN  (IF BatteryUniqueId(s) = uid
              THEN DzAddedCount("DeconzBattery", s) ELSE 0)
             + DzBatteryCount(uid, S \ {s})

\* C18: at most one DeconzBattery entity is ever handed to async_add_entities
\* for a battery unique id, over all the sensors that share it.
C18_BatteryEntityUnique ==
    \A s \in Sensors : DzBatteryCount(BatteryUniqueId(s), Sensors) <= 1

\* C18 witness: two sensors of one device have both been passed with their
\* batteries set, and the device has its one battery entity.
C18_Witness ==
    /\ DzPassed("s2") /\ DzPassed("s3")
    /\ ~DzPending("s2") /\ ~DzPending("s3")
    /\ BatteryIsSet(dz_battery["s2"]) /\ BatteryIsSet(dz_battery["s3"])
    /\ DzBatteryCount(BatteryUniqueId("s2"), Sensors) = 1

\* C19: the handler holds at most one tracker for each sensor and each sensor
\* has at most one tracker callback registered, in every reachable state.
C19_TrackerUnique ==
    \A s \in Sensors : dz_trackers[s] <= 1 /\ dz_callbacks[s] <= 1

-----------------------------------------------------------------------------
(***************************************************************************)
(* HEOS media player: the command methods under log_command_error, the     *)
(* dispatcher handlers, and adding to and removing from the hub.           *)
(***************************************************************************)

\* Bound of the HEOS model: the readings of the clock.
MaxClock == 1

\* The signals async_added_to_hass connects to, in its order.
HeosSignals ==
    <<"SIGNAL_PLAYER_EVENT", "SIGNAL_CONTROLLER_EVENT", "SIGNAL_HEOS_EVENT",
      "SIGNAL_HEOS_SOURCES_UPDATED">>

HeosSignalNames == {HeosSignals[i] : i \in 1..Len(HeosSignals)}

\* The command methods of HeosMediaPlayer.
HeosCommands ==
    {"async_clear_playlist", "async_media_pause", "async_media_play",
     "async_media_previous_track", "async_media_next_track",
     "async_media_stop", "async_mute_volume", "async_play_media",
     "async_select_source", "async_set_shuffle", "async_set_volume_level"}

\* How a vendor call ends: normally, or with an exception.
HeosFailures ==
    {"None", "CommandError", "TimeoutError", "ConnectionError", "ValueError"}

\* A variant of the caught exceptions: CommandError alone.
HeosCaughtOnlyCommandError == {"CommandError"}

\* The exceptions log_command_error catches.
HeosCaught == {"CommandError", "TimeoutError", "ConnectionError"}

MediaTypes == {"url", "music"}

\* The vendor's play states: the three of pyheos.const, and values outside.
PlayStates == {"play", "stop", "pause", "unknown"}

\* The keys of HeosMediaPlayer._play_state_to_state
PlayStateKeys == {"play", "stop", "pause"}

_play_state_to_state(ps) ==
    CASE ps = "play" -> "playing"
      [] ps = "stop" -> "idle"
      [] ps = "pause" -> "paused"

\* HeosMediaPlayer.state: the lookup raises KeyError on a missing key.
state(ps) ==
    IF ps \in PlayStateKeys
    THEN [raised |-> "None", value |-> _play_state_to_state(ps)]
    ELSE [raised |-> "KeyError", value |-> "None"]

\* HeosMediaPlayer._control_to_support
_control_to_support(c) ==
    CASE c = "play" -> "SUPPORT_PLAY"
      [] c = "pause" -> "SUPPORT_PAUSE"
      [] c = "stop" -> "SUPPORT_STOP"
      [] c = "play_previous" -> "SUPPORT_PREVIOUS_TRACK"
      [] c = "play_next" -> "SUPPORT_NEXT_TRACK"

\* The supported controls the vendor reports (pyheos CONTROLS_*).
ControlSets ==
    {{"play", "pause", "stop"},
     {"play", "pause", "stop", "play_previous", "play_next"}}

BASE_SUPPORTED_FEATURES ==
    {"SUPPORT_VOLUME_MUTE", "SUPPORT_VOLUME_SET", "SUPPORT_VOLUME_STEP",
     "SUPPORT_CLEAR_PLAYLIST", "SUPPORT_SHUFFLE_SET", "SUPPORT_SELECT_SOURCE",
     "SUPPORT_PLAY_MEDIA"}

\* HeosMediaPlayer.async_update: the features of the controls, or-ed.
async_update(controls) ==
    BASE_SUPPORTED_FEATURES \cup {_control_to_support(c) : c \in controls}

\* The entity's locally held state.
heosLocal ==
    <<_signals, _source_manager, _media_position_updated_at,
      _supported_features>>

\* log_command_error's wrapper around a command whose vendor call ends with
\* `failure`: the caught exceptions are logged, any other propagates.
log_command_error(command, failure) ==
    IF failure = "None"
    THEN [op |-> command, raised |-> "None", logged |-> FALSE,
          updated |-> FALSE]
    ELSE IF failure \in HeosCaught
    THEN [op |-> command, raised |-> "None", logged |-> TRUE,
          updated |-> FALSE]
    ELSE [op |-> command, raised |-> failure, logged |-> FALSE,
          updated |-> FALSE]

HeosInit ==
    /\ heos_added = FALSE
    /\ _signals = <<>>
    /\ heos_connected = [s \in HeosSignalNames |-> 0]
    /\ _source_manager = "None"
    /\ _media_position_updated_at = None
    /\ _supported_features = BASE_SUPPORTED_FEATURES
    /\ heos_player = [state |-> "stop", controls |-> {"play", "pause", "stop"}]
    /\ heos_now = 0
    /\ heos_hub_state = "None"
    /\ heos_result = [op |-> "__init__", raised |-> "None", logged |-> FALSE,
                      updated |-> FALSE]

\* async_added_to_hass: the four connections, their disconnect callables
\* appended to _signals.
HeosAddedToHass ==
    /\ ~heos_added
    /\ heos_added' = TRUE
    /\ _source_manager' = "DATA_SOURCE_MANAGER"
    /\ _signals' = _signals \o HeosSignals
    /\ heos_connected' = [s \in HeosSignalNames |-> heos_connected[s] + 1]
    /\ heos_result' = [op |-> "async_added_to_hass", raised |-> "None",
                       logged |-> FALSE, updated |-> FALSE]
    /\ UNCHANGED <<_media_position_updated_at, _supported_features,
                   heos_player, heos_now, heos_hub_state>>
    /\ UNCHANGED heosOthers

\* Calling every disconnect callable of a list: each removes one connection
\* of the entity's handler from its signal, when there is one.
RECURSIVE HeosDisconnectAll(_, _)
HeosDisconnectAll(conn, sigs) ==
    IF sigs = <<>>
    THEN conn
    ELSE HeosDisconnectAll(
            [conn EXCEPT ![Head(sigs)] = IF @ > 0 THEN @ - 1 ELSE 0],
            Tail(sigs))

\* A variant of the removal that clears _signals without calling the
\* disconnect callables.
HeosWillRemoveNoDisconnect ==
    /\ heos_added
    /\ heos_added' = FALSE
    /\ heos_connected' = heos_connected
    /\ _signals' = <<>>
    /\ heos_hub_state' = "None"
    /\ heos_result' = [op |-> "async_will_remove_from_hass", raised |-> "None",
                       logged |-> FALSE, updated |-> FALSE]
    /\ UNCHANGED <<_source_manager, _media_position_updated_at,
                   _supported_features, heos_player, heos_now>>
    /\ UNCHANGED heosOthers

\* async_will_remove_from_hass, after which the hub drops the entity's state.
async_will_remove_from_hass ==
    /\ heos_added
    /\ heos_added' = FALSE
    /\ heos_connected' = HeosDisconnectAll(heos_connected, _signals)
    /\ _signals' = <<>>
    /\ heos_hub_state' = "None"
    /\ heos_result' = [op |-> "async_will_remove_from_hass", raised |-> "None",
                       logged |-> FALSE, updated |-> FALSE]
    /\ UNCHANGED <<_source_manager, _media_position_updated_at,
                   _supported_features, heos_player, heos_now>>
    /\ UNCHANGED heosOthers

\* A command method called by the hub; its vendor call ends with `failure`.
\* async_play_media calls the vendor only for MEDIA_TYPE_URL and logs an
\* error for any other media type.
HeosCommand(command, failure, media_type) ==
    /\ heos_added
    /\ command = "async_play_media" \/ media_type = "url"
    /\ media_type = "url" \/ failure = "None"
    /\ heos_result' =
          IF command = "async_play_media" /\ media_type # "url"
          THEN [op |-> command, raised |-> "None", logged |-> TRUE,
                updated |-> FALSE]
          ELSE log_command_error(command, failure)
    /\ UNCHANGED <<heos_added, _signals, heos_connected, _source_manager,
                   _media_position_updated_at, _supported_features,
                   heos_player, heos_now, heos_hub_state>>
    /\ UNCHANGED heosOthers

\* async_update_ha_state(True) as a handler calls it: async_update, then the
\* state property is read and written to the hub.
HeosUpdateHaState(op, logged, player) ==
    /\ _supported_features' = async_update(player.controls)
    /\ heos_hub_state' = IF state(player.state).raised = "None"
                         THEN state(player.state).value
                         ELSE heos_hub_state
    /\ heos_result' = [op |-> op, raised |-> state(player.state).raised,
                       logged |-> logged, updated |-> TRUE]

\* A handler that is not connected, or returns at once, does nothing.
HeosNoUpdate(op) ==
    /\ heos_result' = [op |-> op, raised |-> "None", logged |-> FALSE,
                       updated |-> FALSE]
    /\ UNCHANGED <<_supported_features, heos_hub_state>>

\* The vendor sends a player event: the player's attributes have changed.
\* _player_update ignores other players' events and stamps progress events.
HeosPlayerEvent(player_id, event, ps, controls) ==
    /\ heos_player' = IF player_id = "this"
                      THEN [state |-> ps, controls |-> controls]
                      ELSE heos_player
    /\ player_id = "this" \/ (ps = heos_player.state
                              /\ controls = heos_player.controls)
    /\ IF heos_connected["SIGNAL_PLAYER_EVENT"] > 0 /\ player_id = "this"
       THEN /\ _media_position_updated_at' =
                  IF event = "EVENT_PLAYER_NOW_PLAYING_PROGRESS"
                  THEN Some(heos_now)
                  ELSE _media_position_updated_at
            /\ HeosUpdateHaState("_player_update", FALSE,
                                 [state |-> ps, controls |-> controls])
       ELSE /\ HeosNoUpdate("_player_update")
            /\ UNCHANGED _media_position_updated_at
    /\ UNCHANGED <<heos_added, _signals, heos_connected, _source_manager,
                   heos_now>>
    /\ UNCHANGED heosOthers

\* The vendor sends a controller event.
HeosControllerEvent(event) ==
    /\ IF heos_connected["SIGNAL_CONTROLLER_EVENT"] > 0
          /\ event = "EVENT_PLAYERS_CHANGED"
       THEN HeosUpdateHaState("_controller_event", FALSE, heos_player)
       ELSE HeosNoUpdate("_controller_event")
    /\ UNCHANGED <<heos_added, _signals, heos_connected, _source_manager,
                   _media_position_updated_at, heos_player, heos_now>>
    /\ UNCHANGED heosOthers

\* The vendor sends a connection event: on EVENT_CONNECTED the player is
\* refreshed, a failure of which is logged; the state is updated either way.
HeosHeosEvent(event, failure) ==
    /\ failure \in HeosCaught \cup {"None"}
    /\ event = "EVENT_CONNECTED" \/ failure = "None"
    /\ heos_connected["SIGNAL_HEOS_EVENT"] > 0 \/ failure = "None"
    /\ IF heos_connected["SIGNAL_HEOS_EVENT"] > 0
       THEN HeosUpdateHaState("_heos_event", failure # "None", heos_player)
       ELSE HeosNoUpdate("_heos_event")
    /\ UNCHANGED <<heos_added, _signals, heos_connected, _source_manager,
                   _media_position_updated_at, heos_player, heos_now>>
    /\ UNCHANGED heosOthers

\* The integration sends SIGNAL_HEOS_SOURCES_UPDATED.
HeosSourcesUpdated ==
    /\ IF heos_connected["SIGNAL_HEOS_SOURCES_UPDATED"] > 0
       THEN HeosUpdateHaState("_sources_updated", FALSE, heos_player)
       ELSE HeosNoUpdate("_sources_updated")
    /\ UNCHANGED <<heos_added, _signals, heos_connected, _source_manager,
                   _media_position_updated_at, heos_player, heos_now>>
    /\ UNCHANGED heosOthers

\* Time passes.
HeosTick ==
    /\ heos_now < MaxClock
    /\ heos_now' = heos_now + 1
    /\ UNCHANGED <<heos_added, _signals, heos_connected, _source_manager,
                   _media_position_updated_at, _supported_features,
                   heos_player, heos_hub_state, heos_result>>
    /\ UNCHANGED heosOthers

HeosNext ==
    \/ HeosAddedToHass
    \/ async_will_remove_from_hass
    \/ \E c \in HeosCommands, f \in HeosFailures, m \in MediaTypes :
          HeosCommand(c, f, m)
    \/ \E pid \in {"this", "other"},
          e \in {"EVENT_PLAYER_STATE_CHANGED",
                 "EVENT_PLAYER_NOW_PLAYING_PROGRESS"},
          ps \in PlayStates, cs \in ControlSets :
          HeosPlayerEvent(pid, e, ps, cs)
    \/ \E e \in {"EVENT_PLAYERS_CHANGED", "EVENT_GROUPS_CHANGED"} :
          HeosControllerEvent(e)
    \/ \E e \in {"EVENT_CONNECTED", "EVENT_DISCONNECTED"},
          f \in HeosFailures : HeosHeosEvent(e, f)
    \/ HeosSourcesUpdated
    \/ HeosTick

\* The vendor failures the uniform error-handling pattern names.
VendorErrors == {"CommandError", "TimeoutError", "ConnectionError"}

\* C2: for every HeosMediaPlayer command method, a vendor call that fails with
\* a CommandError, a timeout or a ConnectionError is logged, the command
\* returns normally instead of raising, and the entity's locally held state
\* (and the state the hub holds for it) is unchanged.
C2_HeosCommandErrorsLogged ==
    [][\A c \in HeosCommands, f \in VendorErrors :
          HeosCommand(c, f, "url")
          => /\ heos_result'.op = c
             /\ heos_result'.raised = "None"
             /\ heos_result'.logged
             /\ UNCHANGED heosLocal
             /\ UNCHANGED heos_hub_state]_vars

\* C2 witness: a command whose vendor call failed has returned normally with
\* the error logged.
C2_Witness ==
    /\ heos_result.op = "async_set_volume_level"
    /\ heos_result.raised = "None"
    /\ heos_result.logged

\* C5: reading HeosMediaPlayer.state never raises; play/stop/pause map to
\* playing/idle/paused and any other vendor play state maps to "unknown":
\* stated of the read that async_update_ha_state makes for an added entity.
C5_HeosStateNeverRaises ==
    LET r == state(heos_player.state)
    IN  (heos_added /\ heos_result.updated)
        => /\ r.raised = "None"
           /\ heos_result.raised = "None"
           /\ heos_hub_state = r.value
           /\ heos_player.state = "play" => r.value = "playing"
           /\ heos_player.state = "stop" => r.value = "idle"
           /\ heos_player.state = "pause" => r.value = "paused"
           /\ heos_player.state \notin {"play", "stop", "pause"}
                 => r.value = "unknown"

\* C7: while a HeosMediaPlayer is not added to the hub (before it is added,
\* and after every removal) none of its handlers is connected to any of the
\* four signals and _signals is empty, so a vendor event triggers no state
\* update on it; while it is added each handler is connected exactly once,
\* whatever the number of add/remove cycles before.
C7_HeosCallbackCleanup ==
    /\ ~heos_added
          => /\ _signals = <<>>
             /\ \A s \in HeosSignalNames : heos_connected[s] = 0
             /\ ~heos_result.updated
             /\ heos_hub_state = "None"
    /\ heos_added
          => /\ _signals = HeosSignals
             /\ \A s \in HeosSignalNames : heos_connected[s] = 1

\* C7 witness: the entity was added and removed again, and a player event
\* that arrived after the removal has updated nothing.
C7_Witness ==
    /\ ~heos_added
    /\ _source_manager # "None"
    /\ heos_result.op = "_player_update"
    /\ ~heos_result.updated
    /\ _signals = <<>>

-----------------------------------------------------------------------------
(***************************************************************************)
(* TotalConnect alarm control panel: update() and the arm/disarm commands. *)
(***************************************************************************)

\* The armed statuses update() compares with, by the client attribute's name.
TcClientStatuses ==
    {"DISARMED", "DISARMED_BYPASS", "ARMED_STAY", "ARMED_STAY_INSTANT",
     "ARMED_STAY_INSTANT_BYPASS", "ARMED_STAY_NIGHT", "ARMED_AWAY",
     "ARMED_AWAY_BYPASS", "ARMED_AWAY_INSTANT", "ARMED_AWAY_INSTANT_BYPASS",
     "ARMED_CUSTOM_BYPASS", "ARMING", "DISARMING", "ALARMING",
     "ALARMING_FIRE_SMOKE", "ALARMING_CARBON_MONOXIDE"}

\* What get_armed_status can return: one of them, or any other code.
TcStatuses == TcClientStatuses \cup {"other_code", "None"}

\* How a vendor call of these adapters ends.
CmdFailures == {"None", "ConnectionError", "TimeoutError", "CommandError"}

\* A variant of the status chain of update() without the custom-bypass branch.
TcStateOfNoCustomBypass(status) ==
    CASE status \in {"DISARMED", "DISARMED_BYPASS"} ->
            [state |-> "disarmed", source |-> "None", logged |-> FALSE]
      [] status \in {"ARMED_STAY", "ARMED_STAY_INSTANT",
                     "ARMED_STAY_INSTANT_BYPASS"} ->
            [state |-> "armed_home", source |-> "None", logged |-> FALSE]
      [] status = "ARMED_STAY_NIGHT" ->
            [state |-> "armed_night", source |-> "None", logged |-> FALSE]
      [] status \in {"ARMED_AWAY", "ARMED_AWAY_BYPASS", "ARMED_AWAY_INSTANT",
                     "ARMED_AWAY_INSTANT_BYPASS"} ->
            [state |-> "armed_away", source |-> "None", logged |-> FALSE]
      [] status = "ARMING" ->
            [state |-> "arming", source |-> "None", logged |-> FALSE]
      [] status = "DISARMING" ->
            [state |-> "disarming", source |-> "None", logged |-> FALSE]
      [] status = "ALARMING" ->
            [state |-> "triggered", source |-> "Police/Medical",
             logged |-> FALSE]
      [] status = "ALARMING_FIRE_SMOKE" ->
            [state |-> "triggered", source |-> "Fire/Smoke", logged |-> FALSE]
      [] status = "ALARMING_CARBON_MONOXIDE" ->
            [state |-> "triggered", source |-> "Carbon Monoxide",
             logged |-> FALSE]
      [] OTHER -> [state |-> "None", source |-> "None", logged |-> TRUE]

\* The if/elif chain of update(): the state and the triggered source of a
\* status; the else branch logs the status and leaves the state None.
TcStateOf(status) ==
    CASE status \in {"DISARMED", "DISARMED_BYPASS"} ->
            [state |-> "disarmed", source |-> "None", logged |-> FALSE]
      [] status \in {"ARMED_STAY", "ARMED_STAY_INSTANT",
                     "ARMED_STAY_INSTANT_BYPASS"} ->
            [state |-> "armed_home", source |-> "None", logged |-> FALSE]
      [] status = "ARMED_STAY_NIGHT" ->
            [state |-> "armed_night", source |-> "None", logged |-> FALSE]
      [] status \in {"ARMED_AWAY", "ARMED_AWAY_BYPASS", "ARMED_AWAY_INSTANT",
                     "ARMED_AWAY_INSTANT_BYPASS"} ->
            [state |-> "armed_away", source |-> "None", logged |-> FALSE]
      [] status = "ARMED_CUSTOM_BYPASS" ->
            [state |-> "armed_custom_bypass", source |-> "None",
             logged |-> FALSE]
      [] status = "ARMING" ->
            [state |-> "arming", source |-> "None", logged |-> FALSE]
      [] status = "DISARMING" ->
            [state |-> "disarming", source |-> "None", logged |-> FALSE]
      [] status = "ALARMING" ->
            [state |-> "triggered", source |-> "Police/Medical",
             logged |-> FALSE]
      [] status = "ALARMING_FIRE_SMOKE" ->
            [state |-> "triggered", source |-> "Fire/Smoke", logged |-> FALSE]
      [] status = "ALARMING_CARBON_MONOXIDE" ->
            [state |-> "triggered", source |-> "Carbon Monoxide",
             logged |-> FALSE]
      [] OTHER -> [state |-> "None", source |-> "None", logged |-> TRUE]

\* A call of an entity method whose vendor call is not inside a try: an
\* exception of the vendor call leaves the method.
Unguarded(entity, op, failure) ==
    [entity |-> entity, op |-> op, raised |-> failure, logged |-> FALSE]

TcInit ==
    /\ tc_status = "DISARMED"
    /\ tc_state = "None"
    /\ tc_attr = "None"

CmdInit ==
    cmd_result = [entity |-> "None", op |-> "__init__", raised |-> "None",
                  logged |-> FALSE]

\* The panel's status changes at the vendor.
TcVendorStatus(status) ==
    /\ status # tc_status
    /\ tc_status' = status
    /\ UNCHANGED <<tc_state, tc_attr, cmd_result>>
    /\ UNCHANGED tcOthers

\* TotalConnectAlarm.update(): get_armed_status is a vendor call outside any
\* try; with the status in hand the chain sets _state and the attributes.
TcUpdate(failure) ==
    /\ IF failure = "None"
       THEN /\ tc_state' = TcStateOf(tc_status).state
            /\ tc_attr' = TcStateOf(tc_status).source
            /\ cmd_result' = [entity |-> "TotalConnectAlarm", op |-> "update",
                              raised |-> "None",
                              logged |-> TcStateOf(tc_status).logged]
       ELSE /\ cmd_result' = Unguarded("TotalConnectAlarm", "update", failure)
            /\ UNCHANGED <<tc_state, tc_attr>>
    /\ UNCHANGED tc_status
    /\ UNCHANGED tcOthers

TcCommands ==
    {"alarm_disarm", "alarm_arm_home", "alarm_arm_away", "alarm_arm_night"}

\* alarm_disarm, alarm_arm_home, alarm_arm_away, alarm_arm_night: one vendor
\* call each (disarm, arm_stay, arm_away, arm_stay_night).
TcCommand(command, failure) ==
    /\ cmd_result' = Unguarded("TotalConnectAlarm", command, failure)
    /\ UNCHANGED <<tc_status, tc_state, tc_attr>>
    /\ UNCHANGED tcOthers

TcNext ==
    \/ \E s \in TcStatuses : TcVendorStatus(s)
    \/ \E f \in CmdFailures : TcUpdate(f)
    \/ \E c \in TcCommands, f \in CmdFailures : TcCommand(c, f)

-----------------------------------------------------------------------------
(***************************************************************************)
(* Tesla lock and climate: the commands and async_update.                  *)
(***************************************************************************)

\* The temperatures a service call passes, and the vendor's goal temperature.
Temperatures == {None, Some(0), Some(21)}

HvacModes == {"off", "heat", "cool"}

TeslaInit ==
    /\ tesla_device = [locked |-> TRUE, goal_temp |-> Some(21),
                       hvac |-> FALSE]
    /\ tesla_lock_state = "None"
    /\ tesla_target_temperature = None

\* TeslaLock.async_lock / async_unlock: the vendor call is awaited outside any
\* try; when it succeeds the car's lock follows.
TeslaLockCommand(command, failure) ==
    /\ command \in {"async_lock", "async_unlock"}
    /\ cmd_result' = Unguarded("TeslaLock", command, failure)
    /\ tesla_device' = IF failure = "None"
                       THEN [tesla_device EXCEPT
                               !.locked = (command = "async_lock")]
                       ELSE tesla_device
    /\ UNCHANGED <<tesla_lock_state, tesla_target_temperature>>
    /\ UNCHANGED teslaOthers

\* TeslaLock.async_update
TeslaLockUpdate ==
    /\ tesla_lock_state' = IF tesla_device.locked THEN "locked" ELSE "unlocked"
    /\ cmd_result' = [entity |-> "TeslaLock", op |-> "async_update",
                      raised |-> "None", logged |-> FALSE]
    /\ UNCHANGED <<tesla_device, tesla_target_temperature>>
    /\ UNCHANGED teslaOthers

\* TeslaThermostat.async_set_temperature: the vendor is called only with a
\* temperature that is true in Python (neither None nor 0).
TeslaSetTemperature(temperature, failure) ==
    /\ (temperature # None /\ temperature[1] # 0) \/ failure = "None"
    /\ cmd_result' =
          Unguarded("TeslaThermostat", "async_set_temperature", failure)
    /\ tesla_device' =
          IF failure = "None" /\ temperature # None /\ temperature[1] # 0
          THEN [tesla_device EXCEPT !.goal_temp = temperature]
          ELSE tesla_device
    /\ UNCHANGED <<tesla_lock_state, tesla_target_temperature>>
    /\ UNCHANGED teslaOthers

\* TeslaThermostat.async_set_hvac_mode: set_status(False) for off,
\* set_status(True) for heat, nothing for any other mode.
TeslaSetHvacMode(hvac_mode, failure) ==
    /\ hvac_mode \in {"off", "heat"} \/ failure = "None"
    /\ cmd_result' =
          Unguarded("TeslaThermostat", "async_set_hvac_mode", failure)
    /\ tesla_device' =
          IF failure = "None" /\ hvac_mode \in {"off", "heat"}
          THEN [tesla_device EXCEPT !.hvac = (hvac_mode = "heat")]
          ELSE tesla_device
    /\ UNCHANGED <<tesla_lock_state, tesla_target_temperature>>
    /\ UNCHANGED teslaOthers

\* TeslaThermostat.async_update
TeslaClimateUpdate ==
    /\ tesla_target_temperature' = tesla_device.goal_temp
    /\ cmd_result' = [entity |-> "TeslaThermostat", op |-> "async_update",
                      raised |-> "None", logged |-> FALSE]
    /\ UNCHANGED <<tesla_device, tesla_lock_state>>
    /\ UNCHANGED teslaOthers

TeslaNext ==
    \/ \E c \in {"async_lock", "async_unlock"}, f \in CmdFailures :
          TeslaLockCommand(c, f)
    \/ TeslaLockUpdate
    \/ \E temp \in Temperatures, f \in CmdFailures :
          TeslaSetTemperature(temp, f)
    \/ \E m \in HvacModes, f \in CmdFailures : TeslaSetHvacMode(m, f)
    \/ TeslaClimateUpdate

\* The entities' observable state.
TcTeslaEntityState ==
    <<tc_state, tc_attr, tesla_lock_state, tesla_target_temperature>>

\* C3: when the vendor call of a TotalConnectAlarm arm/disarm command, of
\* TeslaLock.async_lock/async_unlock or of TeslaThermostat.async_set_temperature
\* /async_set_hvac_mode fails with a vendor error, the error is caught and
\* logged, the command does not raise, and the entity's state stays as it was.
C3_CommandErrorsCaught ==
    [][\A f \in VendorErrors :
          (\/ \E c \in TcCommands : TcCommand(c, f)
           \/ \E c \in {"async_lock", "async_unlock"} : TeslaLockCommand(c, f)
           \/ TeslaSetTemperature(Some(21), f)
           \/ \E m \in {"off", "heat"} : TeslaSetHvacMode(m, f))
          => /\ cmd_result'.raised = "None"
             /\ cmd_result'.logged
             /\ UNCHANGED TcTeslaEntityState]_vars

\* The statuses update() has a branch for, and the alarm states of the hub.
TcRecognised ==
    {"DISARMED", "DISARMED_BYPASS", "ARMED_STAY", "ARMED_STAY_INSTANT",
     "ARMED_STAY_INSTANT_BYPASS", "ARMED_STAY_NIGHT", "ARMED_AWAY",
     "ARMED_AWAY_BYPASS", "ARMED_AWAY_INSTANT", "ARMED_AWAY_INSTANT_BYPASS",
     "ARMED_CUSTOM_BYPASS", "ARMING", "DISARMING", "ALARMING",
     "ALARMING_FIRE_SMOKE", "ALARMING_CARBON_MONOXIDE"}

AlarmStates ==
    {"disarmed", "armed_home", "armed_night", "armed_away",
     "armed_custom_bypass", "arming", "disarming", "triggered"}

\* C4: update() does not raise on the status value; a recognised status gives
\* one of the eight alarm states and nothing is logged, any other status is
\* logged and leaves the state None, the entity's unknown state.
C4_TotalConnectStatusMapping ==
    [][TcUpdate("None")
       => /\ cmd_result'.raised = "None"
          /\ tc_status \in TcRecognised
                => tc_state' \in AlarmStates /\ ~cmd_result'.logged
          /\ tc_status \notin TcRecognised
                => tc_state' = "None" /\ cmd_result'.logged
          /\ (tc_state' = "triggered") = (tc_attr' # "None")]_vars

\* C4 witness: update() has met a status it has no branch for, logged it and
\* left the state unknown.
C4_Witness ==
    /\ cmd_result.op = "update"
    /\ cmd_result.raised = "None"
    /\ cmd_result.logged
    /\ tc_status = "other_code"
    /\ tc_state = "None"

-----------------------------------------------------------------------------
(***************************************************************************)
(* Z-Wave dimmer: turn_on, turn_off, _set_duration, and value_changed with *)
(* its delayed refresh on a threading.Timer.                               *)
(***************************************************************************)

\* Bounds of the Z-Wave model: the Timer threads alive at a time, and the
\* refreshes the device has not answered yet.
MaxTimers == 2
MaxPending == 2

Timers == 1..MaxTimers

\* The levels the device reports (0..99) and the arguments of the service
\* calls the model draws from.
Levels == {0, 50, 99}
BrightnessArgs == {None, Some(128), Some(255)}
TransitionArgs == {None, Some(300)}

\* brightness_state(value): the brightness and the state of a level;
\* round((data / 99) * 255) is the nearest integer of data * 255 / 99.
brightness_state(data) ==
    IF data > 0
    THEN [brightness |-> (2 * data * 255 + 99) \div (2 * 99), state |-> "on"]
    ELSE [brightness |-> 0, state |-> "off"]

\* A variant of byte_to_zwave_brightness without the floor of 1.
byte_to_zwave_brightnessNoFloor(value) ==
    IF value > 0 THEN (value * 99) \div 255 ELSE 0

\* byte_to_zwave_brightness(value): max(1, int((value / 255) * 99)), or 0.
byte_to_zwave_brightness(value) ==
    IF value > 0
    THEN IF (value * 99) \div 255 > 1 THEN (value * 99) \div 255 ELSE 1
    ELSE 0

\* A variant of _set_duration that does not clip at 127 minutes.
_set_durationNoClip(duration, transition) ==
    IF duration = None THEN None
    ELSE IF transition = None THEN Some(255)
    ELSE IF transition[1] <= 127 THEN Some(transition[1])
    ELSE Some(transition[1] \div 60 + 127)

\* ZwaveDimmer._set_duration: the data written to values.dimming_duration,
\* which stays None when the dimmer has no such value.
_set_duration(duration, transition) ==
    IF duration = None THEN None
    ELSE IF transition = None THEN Some(255)
    ELSE IF transition[1] <= 127 THEN Some(transition[1])
    ELSE IF transition[1] > 7620 THEN Some(254)
    ELSE Some(transition[1] \div 60 + 127)

\* Timer.isAlive(): the thread is started and has not ended.
isAlive(t) == zw_timers[t] # "none"

ZwInit ==
    /\ _refresh_value \in BOOLEAN
    /\ zw_primary \in Levels
    /\ zw_dimming_duration \in {None, Some(255)}
    /\ _brightness = brightness_state(zw_primary).brightness
    /\ zw_state = brightness_state(zw_primary).state
    /\ _refreshing = FALSE
    /\ _timer = None
    /\ zw_timers = [t \in Timers |-> "none"]
    /\ zw_pc = "idle"
    /\ zw_pending = 0
    /\ zw_writer = [refreshing |-> "__init__", timer |-> "__init__"]
    /\ zw_last = [op |-> "__init__", ok |-> TRUE]

\* ZwaveDimmer.turn_on(**kwargs): `ok` is what node.set_dimmer returns. The
\* level sent is byte_to_zwave_brightness(brightness), or 255 (the previous
\* level) without a brightness; the device reports its new level later.
ZwTurnOn(brightness, transition, ok) ==
    /\ zw_dimming_duration' = _set_duration(zw_dimming_duration, transition)
    /\ _brightness' = IF brightness # None THEN brightness[1] ELSE _brightness
    /\ zw_state' = IF ok THEN "on" ELSE zw_state
    /\ zw_last' = [op |-> "turn_on", ok |-> ok]
    /\ UNCHANGED <<_refresh_value, zw_primary, _refreshing, _timer, zw_timers,
                   zw_pc, zw_pending, zw_writer>>
    /\ UNCHANGED zwOthers

\* ZwaveDimmer.turn_off(**kwargs)
ZwTurnOff(transition, ok) ==
    /\ zw_dimming_duration' = _set_duration(zw_dimming_duration, transition)
    /\ zw_state' = IF ok THEN "off" ELSE zw_state
    /\ zw_last' = [op |-> "turn_off", ok |-> ok]
    /\ UNCHANGED <<_refresh_value, zw_primary, _brightness, _refreshing, _timer,
                   zw_timers, zw_pc, zw_pending, zw_writer>>
    /\ UNCHANGED zwOthers

\* ZWaveDeviceEntity.value_changed, the base method: the entity's properties
\* are updated from the values and the hub is told to refresh its state.
ZwBaseValueChanged(level) ==
    /\ _brightness' = brightness_state(level).brightness
    /\ zw_state' = brightness_state(level).state
    /\ zw_last' = [op |-> "value_changed", ok |-> TRUE]

\* A variant of value_changed's test that does not look at _refresh_value.
ZwRefreshEnabledAlways == TRUE

\* value_changed: `if self._refresh_value`
ZwRefreshEnabled == _refresh_value

\* value_changed up to its test of _refreshing, on the thread that delivers
\* the value's notification. Without refresh_value, or with _refreshing set
\* (which is reset), the base method runs; otherwise the method goes on to
\* its Timer (ZwValueChangedTimer).
ZwValueChanged(level) ==
    /\ zw_primary' = level
    /\ IF ~ZwRefreshEnabled
       THEN /\ ZwBaseValueChanged(level)
            /\ UNCHANGED <<_refreshing, zw_pc, zw_writer>>
       ELSE IF _refreshing
       THEN /\ _refreshing' = FALSE
            /\ zw_writer' = [zw_writer EXCEPT !.refreshing = "value_changed"]
            /\ ZwBaseValueChanged(level)
            /\ UNCHANGED zw_pc
       ELSE /\ zw_pc' = "timer"
            /\ UNCHANGED <<_brightness, zw_state, _refreshing, zw_writer,
                           zw_last>>
    /\ UNCHANGED <<_refresh_value, zw_dimming_duration, _timer, zw_timers>>
    /\ UNCHANGED zwOthers

\* The device reports a new level of the primary value.
ZwDeviceReport(level) ==
    /\ zw_pc = "idle"
    /\ level # zw_primary
    /\ ZwValueChanged(level)
    /\ UNCHANGED zw_pending

\* The device answers a refresh of the primary value.
ZwRefreshAnswer(level) ==
    /\ zw_pc = "idle"
    /\ zw_pending > 0
    /\ zw_pending' = zw_pending - 1
    /\ ZwValueChanged(level)

\* value_changed from its Timer on: a Timer that is alive is cancelled (which
\* stops it only while it waits), a new one is created and started, and the
\* method returns without calling the base method.
ZwValueChangedTimer(t) ==
    /\ zw_pc = "timer"
    /\ ~isAlive(t)
    /\ zw_timers' =
          [u \in Timers |->
              IF u = t THEN "waiting"
              ELSE IF _timer = Some(u) /\ zw_timers[u] = "waiting" THEN "none"
              ELSE zw_timers[u]]
    /\ _timer' = Some(t)
    /\ zw_writer' = [zw_writer EXCEPT !.timer = "value_changed"]
    /\ zw_pc' = "idle"
    /\ zw_last' = [op |-> "value_changed", ok |-> FALSE]
    /\ UNCHANGED <<_refresh_value, zw_primary, zw_dimming_duration,
                   _brightness, zw_state, _refreshing, zw_pending>>
    /\ UNCHANGED zwOthers

\* A variant of the Timer's callback that goes to the refresh without setting
\* _refreshing.
ZwTimerFiresNoFlag(t) ==
    /\ zw_timers[t] = "waiting"
    /\ zw_timers' = [zw_timers EXCEPT ![t] = "running"]
    /\ UNCHANGED <<_refresh_value, zw_primary, zw_dimming_duration,
                   _brightness, zw_state, _refreshing, _timer, zw_pc,
                   zw_pending, zw_writer, zw_last>>
    /\ UNCHANGED zwOthers

\* The delay of a Timer has passed: its thread starts _refresh_value(), which
\* sets _refreshing first.
ZwTimerFires(t) ==
    /\ zw_timers[t] = "waiting"
    /\ zw_timers' = [zw_timers EXCEPT ![t] = "running"]
    /\ _refreshing' = TRUE
    /\ zw_writer' = [zw_writer EXCEPT !.refreshing = "Timer"]
    /\ UNCHANGED <<_refresh_value, zw_primary, zw_dimming_duration,
                   _brightness, zw_state, _timer, zw_pc, zw_pending, zw_last>>
    /\ UNCHANGED zwOthers

\* _refresh_value() goes on to values.primary.refresh() and the thread ends.
ZwTimerRefreshes(t) ==
    /\ zw_timers[t] = "running"
    /\ zw_pending < MaxPending
    /\ zw_timers' = [zw_timers EXCEPT ![t] = "none"]
    /\ zw_pending' = zw_pending + 1
    /\ UNCHANGED <<_refresh_value, zw_primary, zw_dimming_duration,
                   _brightness, zw_state, _refreshing, _timer, zw_pc,
                   zw_writer, zw_last>>
    /\ UNCHANGED zwOthers

ZwNext ==
    \/ \E b \in BrightnessArgs, tr \in TransitionArgs, ok \in BOOLEAN :
          ZwTurnOn(b, tr, ok)
    \/ \E tr \in TransitionArgs, ok \in BOOLEAN : ZwTurnOff(tr, ok)
    \/ \E l \in Levels : ZwDeviceReport(l)
    \/ \E l \in Levels : ZwRefreshAnswer(l)
    \/ \E t \in Timers : ZwValueChangedTimer(t)
    \/ \E t \in Timers : ZwTimerFires(t)
    \/ \E t \in Timers : ZwTimerRefreshes(t)

\* C6: when node.set_dimmer reports failure during turn_on or turn_off, for
\* any brightness and transition arguments, is_on and brightness are exactly
\* what they were before the call.
C6_FailedDimmerCommandKeepsState ==
    [][\A tr \in TransitionArgs :
          (\/ \E b \in BrightnessArgs : ZwTurnOn(b, tr, FALSE)
           \/ ZwTurnOff(tr, FALSE))
          => UNCHANGED <<_brightness, zw_state>>]_vars

-----------------------------------------------------------------------------
(***************************************************************************)
(* Rachio controller binary sensor: the subscription to the controller     *)
(* update signal and its handler.                                          *)
(***************************************************************************)

\* The controllers of the config entry: _create_entities makes one entity
\* for each.
Controllers == {"c1", "c2"}

\* The device ids an update can carry: the controllers and a foreign device.
DeviceIds == Controllers \cup {"other"}

Statuses == {"ONLINE", "OFFLINE", "SLEEPING"}

\* _poll_update(data): True for STATUS_ONLINE, False for STATUS_OFFLINE, and
\* None (after a warning) for any other status.
_poll_update(status) ==
    CASE status = "ONLINE" -> Some(TRUE)
      [] status = "OFFLINE" -> Some(FALSE)
      [] OTHER -> None

\* BinarySensorDevice.state: on or off by is_on.
RachioHubState(s) ==
    IF s = Some(TRUE) THEN "on" ELSE "off"

RachioInit ==
    /\ rachio_phase = [c \in Controllers |-> "new"]
    /\ rachio_state \in [Controllers -> {_poll_update(st) : st \in Statuses}]
    /\ rachio_connected = [c \in Controllers |-> 0]
    /\ rachio_scheduled = [c \in Controllers |-> FALSE]
    /\ rachio_hub_state = [c \in Controllers |-> "None"]
    /\ rachio_last = [op |-> "__init__", handled |-> {}]

\* The hub adds the entity: async_added_to_hass connects _handle_any_update
\* and keeps nothing of what async_dispatcher_connect returns; the hub then
\* writes the entity's state.
RachioAddedToHass(c) ==
    /\ rachio_phase[c] = "new"
    /\ rachio_phase' = [rachio_phase EXCEPT ![c] = "added"]
    /\ rachio_connected' = [rachio_connected EXCEPT ![c] = @ + 1]
    /\ rachio_hub_state' =
          [rachio_hub_state EXCEPT ![c] = RachioHubState(rachio_state[c])]
    /\ rachio_last' = [op |-> "async_added_to_hass", handled |-> {}]
    /\ UNCHANGED <<rachio_state, rachio_scheduled>>
    /\ UNCHANGED rachioOthers

\* The hub removes the entity. The class has no async_will_remove_from_hass
\* and registered no removal callback, so nothing of its own runs; the hub
\* drops the entity's state.
RachioRemoved(c) ==
    /\ rachio_phase[c] = "added"
    /\ rachio_phase' = [rachio_phase EXCEPT ![c] = "removed"]
    /\ rachio_hub_state' = [rachio_hub_state EXCEPT ![c] = "None"]
    /\ rachio_last' = [op |-> "remove", handled |-> {}]
    /\ UNCHANGED <<rachio_state, rachio_connected, rachio_scheduled>>
    /\ UNCHANGED rachioOthers

\* _handle_update: the subtype sets _state; any other subtype leaves it.
_handle_update(s, subtype) ==
    CASE subtype = "ONLINE" -> Some(TRUE)
      [] subtype = "OFFLINE" -> Some(FALSE)
      [] OTHER -> s

\* The entities whose _handle_any_update passes an update on to
\* _handle_update: the connected ones whose controller the update names.
RachioHandlers(device) ==
    {c \in Controllers : rachio_connected[c] > 0 /\ device = c}

\* SIGNAL_RACHIO_CONTROLLER_UPDATE is sent: every connected handler runs,
\* and the one of the named controller sets its state and schedules the
\* state refresh.
RachioControllerUpdate(device, subtype) ==
    LET handlers == RachioHandlers(device) IN
    /\ rachio_state' =
          [c \in Controllers |->
              IF c \in handlers THEN _handle_update(rachio_state[c], subtype)
              ELSE rachio_state[c]]
    /\ rachio_scheduled' =
          [c \in Controllers |-> rachio_scheduled[c] \/ c \in handlers]
    /\ rachio_last' = [op |-> "_handle_any_update", handled |-> handlers]
    /\ UNCHANGED <<rachio_phase, rachio_connected, rachio_hub_state>>
    /\ UNCHANGED rachioOthers

\* The scheduled refresh runs: the entity's state is written to the hub.
RachioWriteState(c) ==
    /\ rachio_scheduled[c]
    /\ rachio_scheduled' = [rachio_scheduled EXCEPT ![c] = FALSE]
    /\ rachio_hub_state' =
          [rachio_hub_state EXCEPT ![c] = RachioHubState(rachio_state[c])]
    /\ rachio_last' = [op |-> "async_update_ha_state", handled |-> {}]
    /\ UNCHANGED <<rachio_phase, rachio_state, rachio_connected>>
    /\ UNCHANGED rachioOthers

RachioNext ==
    \/ \E c \in Controllers : RachioAddedToHass(c)
    \/ \E c \in Controllers : RachioRemoved(c)
    \/ \E d \in DeviceIds, st \in Statuses : RachioControllerUpdate(d, st)
    \/ \E c \in Controllers : RachioWriteState(c)

\* C8: after an entity is removed from the hub its handler is no longer
\* connected to the controller update signal, and a controller update that
\* arrives then neither changes its state nor schedules a state refresh.
C8_RachioCallbackCleanup ==
    /\ [](\A c \in Controllers :
             rachio_phase[c] = "removed" => rachio_connected[c] = 0)
    /\ [][\A c \in Controllers :
             (rachio_phase[c] = "removed"
              /\ \E d \in DeviceIds, st \in Statuses :
                    RachioControllerUpdate(d, st))
             => /\ rachio_state'[c] = rachio_state[c]
                /\ rachio_scheduled'[c] = rachio_scheduled[c]
                /\ c \notin rachio_last'.handled]_vars

-----------------------------------------------------------------------------
(***************************************************************************)
(* MQTT entity availability (MqttAvailability), as the test helpers of     *)
(* tests/components/mqtt/common.py exercise it.                            *)
(***************************************************************************)

\* The configurations the helpers set up: no availability topic, the topic
\* with the default payloads, the topic with custom payloads.
MqttConfigs ==
    {[availability_topic |-> "None", payload_available |-> "online",
      payload_not_available |-> "offline"],
     [availability_topic |-> "availability-topic",
      payload_available |-> "online", payload_not_available |-> "offline"],
     [availability_topic |-> "availability-topic",
      payload_available |-> "good", payload_not_available |-> "nogood"]}

MqttPayloads == {"online", "offline", "good", "nogood", "ON", "OFF"}

\* The state the hub shows: unavailable unless the entity is available.
MqttHubState(available, st) ==
    IF available THEN st ELSE "unavailable"

\* A variant of the availability handler that any payload but the
\* not-available one makes available.
MqttAvailabilityOfLoose(config, available, payload) ==
    IF payload = config.payload_not_available THEN FALSE ELSE TRUE

\* The availability message handler: the available payload sets _available,
\* the not-available payload resets it, any other payload changes nothing.
MqttAvailabilityOf(config, available, payload) ==
    IF payload = config.payload_available THEN TRUE
    ELSE IF payload = config.payload_not_available THEN FALSE
    ELSE available

MqttInit ==
    /\ mqtt_config = [availability_topic |-> "None",
                      payload_available |-> "online",
                      payload_not_available |-> "offline"]
    /\ mqtt_setup = FALSE
    /\ mqtt_available = FALSE
    /\ mqtt_state = "unknown"
    /\ mqtt_hub_state = "None"
    /\ mqtt_last = [op |-> "__init__", topic |-> "None", payload |-> "None"]

\* async_setup_component with a configuration: the entity is available at
\* once only when it has no availability topic.
MqttSetup(config) ==
    /\ ~mqtt_setup
    /\ mqtt_setup' = TRUE
    /\ mqtt_config' = config
    /\ mqtt_available' = (config.availability_topic = "None")
    /\ mqtt_hub_state' =
          MqttHubState(config.availability_topic = "None", mqtt_state)
    /\ mqtt_last' = [op |-> "setup", topic |-> "None", payload |-> "None"]
    /\ UNCHANGED mqtt_state
    /\ UNCHANGED mqttOthers

\* A message on a topic: the availability topic (when the entity subscribed to
\* one) goes to the availability handler, the state topic to the entity's
\* state; the hub's state is written after either.
MqttMessage(topic, payload) ==
    /\ mqtt_setup
    /\ mqtt_available' =
          IF topic = "availability-topic" /\ mqtt_config.availability_topic = topic
          THEN MqttAvailabilityOf(mqtt_config, mqtt_available, payload)
          ELSE mqtt_available
    /\ mqtt_state' = IF topic = "state-topic" /\ payload \in {"ON", "OFF"}
                     THEN payload ELSE mqtt_state
    /\ mqtt_hub_state' = MqttHubState(mqtt_available', mqtt_state')
    /\ mqtt_last' = [op |-> "message", topic |-> topic, payload |-> payload]
    /\ UNCHANGED <<mqtt_config, mqtt_setup>>
    /\ UNCHANGED mqttOthers

MqttNext ==
    \/ \E c \in MqttConfigs : MqttSetup(c)
    \/ \E tp \in {"availability-topic", "state-topic"}, p \in MqttPayloads :
          MqttMessage(tp, p)

\* C10: an entity with an availability topic is unavailable from setup until
\* the available payload (default "online", or the configured one) arrives on
\* that topic, and unavailable again on the not-available payload; a state
\* message received while it is unavailable does not make it available, the
\* available payload after it does. An entity without an availability topic
\* is never unavailable after setup.
C10_MqttAvailability ==
    /\ [](mqtt_setup /\ mqtt_config.availability_topic = "None"
             => mqtt_hub_state # "unavailable")
    /\ [][/\ (\E c \in MqttConfigs : MqttSetup(c))
             => (mqtt_hub_state' = "unavailable")
                   = (mqtt_config'.availability_topic # "None")
          /\ \A p \in MqttPayloads :
                (MqttMessage("availability-topic", p)
                 /\ mqtt_config.availability_topic # "None")
                => /\ p = mqtt_config.payload_available
                         => mqtt_hub_state' # "unavailable"
                   /\ p = mqtt_config.payload_not_available
                         => mqtt_hub_state' = "unavailable"
          /\ (mqtt_hub_state = "unavailable" /\ mqtt_hub_state' # "unavailable")
                => MqttMessage("availability-topic",
                               mqtt_config.payload_available)]_vars

\* C10 witness: an entity with custom payloads has just received a state
\* message while unavailable: its own state is taken, the hub still shows it
\* unavailable.
C10_Witness ==
    /\ mqtt_config.payload_available = "good"
    /\ mqtt_state = "ON"
    /\ mqtt_hub_state = "unavailable"
    /\ mqtt_last = [op |-> "message", topic |-> "state-topic",
                    payload |-> "ON"]

-----------------------------------------------------------------------------
(***************************************************************************)
(* MQTT discovery: config messages on homeassistant/<domain>/<id>/config   *)
(* create, update and remove entities, as the test helpers of              *)
(* tests/components/mqtt/common.py exercise it.                            *)
(***************************************************************************)

\* The discovery ids of the topics homeassistant/<domain>/<id>/config.
DiscoveryIds == {"bla", "ble"}

\* The configurations a discovery message carries: a name, and with device
\* info a unique id and a device.
DiscoveryConfigs == [name : {"test", "Beer"}, device : BOOLEAN]

\* The payloads of a discovery message: empty, or a configuration.
DiscoveryPayloads == {None} \cup {Some(c) : c \in DiscoveryConfigs}

\* A variant of the removal that leaves the registries as they are.
DiscoveryRemoveKeepsRegistries(id) ==
    /\ disc_entities' = [disc_entities EXCEPT ![id] = None]
    /\ disc_states' = disc_states \ {id}
    /\ UNCHANGED <<disc_device_registry, disc_entity_registry>>

\* The removal of a discovered entity: its state leaves the hub, and so do
\* its entity-registry entry and its device.
DiscoveryRemove(id) ==
    /\ disc_entities' = [disc_entities EXCEPT ![id] = None]
    /\ disc_states' = disc_states \ {id}
    /\ disc_device_registry' = disc_device_registry \ {id}
    /\ disc_entity_registry' = disc_entity_registry \ {id}

\* A configuration for a discovery id: a new entity is added with its state,
\* and with device info registered; a known one is updated in place.
DiscoveryAddOrUpdate(id, config) ==
    /\ disc_entities' = [disc_entities EXCEPT ![id] = Some(config)]
    /\ disc_states' = disc_states \cup {id}
    /\ disc_device_registry' =
          IF config.device THEN disc_device_registry \cup {id}
          ELSE disc_device_registry
    /\ disc_entity_registry' =
          IF config.device THEN disc_entity_registry \cup {id}
          ELSE disc_entity_registry

DiscInit ==
    /\ disc_entities = [id \in DiscoveryIds |-> None]
    /\ disc_states = {}
    /\ disc_device_registry = {}
    /\ disc_entity_registry = {}
    /\ disc_last = [id |-> "None", payload |-> None, did |-> "__init__"]

\* async_fire_mqtt_message on a discovery topic. An empty payload removes the
\* entity discovered there and is ignored when there is none.
DiscoveryMessage(id, payload) ==
    /\ IF payload = None
       THEN IF disc_entities[id] # None
            THEN /\ DiscoveryRemove(id)
                 /\ disc_last' = [id |-> id, payload |-> payload,
                                  did |-> "removed"]
            ELSE /\ UNCHANGED <<disc_entities, disc_states,
                                disc_device_registry, disc_entity_registry>>
                 /\ disc_last' = [id |-> id, payload |-> payload,
                                  did |-> "ignored"]
       ELSE /\ DiscoveryAddOrUpdate(id, payload[1])
            /\ disc_last' =
                  [id |-> id, payload |-> payload,
                   did |-> IF disc_entities[id] = None THEN "added"
                           ELSE "updated"]
    /\ UNCHANGED discOthers

DiscNext ==
    \E id \in DiscoveryIds, payload \in DiscoveryPayloads :
       DiscoveryMessage(id, payload)

\* C11: a configuration on a discovery topic that has no entity creates one
\* with a state; an empty payload on the topic of a discovered entity removes
\* its state, and when it was configured with device info also its
\* device-registry and entity-registry entries.
C11_DiscoveryRemoval ==
    [][\A id \in DiscoveryIds :
          /\ \A c \in DiscoveryConfigs :
                (DiscoveryMessage(id, Some(c)) /\ disc_entities[id] = None)
                => /\ id \in disc_states'
                   /\ c.device => /\ id \in disc_device_registry'
                                  /\ id \in disc_entity_registry'
          /\ (DiscoveryMessage(id, None) /\ disc_entities[id] # None)
                => /\ id \notin disc_states'
                   /\ disc_entities[id][1].device
                         => /\ id \notin disc_device_registry'
                            /\ id \notin disc_entity_registry']_vars

\* C11 witness: an entity with device info was discovered and has just been
\* removed by an empty payload, while another discovered entity remains.
C11_Witness ==
    /\ disc_last = [id |-> "bla", payload |-> None, did |-> "removed"]
    /\ disc_entities["bla"] = None
    /\ "bla" \notin disc_states \cup disc_device_registry \cup disc_entity_registry
    /\ disc_entities["ble"] # None
    /\ "ble" \in disc_device_registry

-----------------------------------------------------------------------------
(***************************************************************************)
(* Fan entities: FanEntity.is_on, the state attributes, the is_on helper   *)
(* of the fan component, and the ZHA fan driven by attribute reports.      *)
(***************************************************************************)

Fans == {"fan1", "fan2"}

\* SPEED_OFF, SPEED_LOW, SPEED_MEDIUM, SPEED_HIGH; "None" is no speed.
Speeds == {"off", "low", "medium", "high"}

\* The fan_mode values a ZHA fan reports.
FanModes == {0, 1, 2, 3}

\* The speed the ZHA fan takes for a reported fan_mode.
VALUE_TO_SPEED(mode) ==
    CASE mode = 0 -> "off"
      [] mode = 1 -> "low"
      [] mode = 2 -> "medium"
      [] OTHER -> "high"

\* FanEntity.is_on: self.speed not in [SPEED_OFF, None].
FanEntityIsOn(speed) ==
    speed \notin {"off", "None"}

\* FanEntity.state_attributes: a property whose value is None gives no
\* attribute; None here is the absent attribute.
state_attributes(speed) ==
    IF speed # "None" THEN Some(speed) ELSE None

\* The state the hub holds for a fan: unavailable, or on/off by is_on, with
\* the state attributes.
FanHubState(available, speed) ==
    [state |-> IF ~available THEN "unavailable"
               ELSE IF FanEntityIsOn(speed) THEN "on" ELSE "off",
     speed |-> state_attributes(speed)]

\* is_on(hass, entity_id): state.attributes[ATTR_SPEED] not in
\* [SPEED_OFF, None]; the subscript raises KeyError without the attribute.
is_on(f) ==
    IF fan_hub[f].speed = None
    THEN [raised |-> "KeyError", result |-> FALSE]
    ELSE [raised |-> "None", result |-> fan_hub[f].speed[1] # "off"]

FanInit ==
    /\ fan_speed = [f \in Fans |-> "None"]
    /\ fan_available = [f \in Fans |-> FALSE]
    /\ fan_hub = [f \in Fans |-> FanHubState(FALSE, "None")]
    /\ fan_last = [op |-> "__init__", fan |-> "None", mode |-> None,
                   raised |-> "None", result |-> FALSE]

\* async_enable_traffic: the device becomes available and the entity's state
\* is written.
FanEnableTraffic(f) ==
    /\ ~fan_available[f]
    /\ fan_available' = [fan_available EXCEPT ![f] = TRUE]
    /\ fan_hub' = [fan_hub EXCEPT ![f] = FanHubState(TRUE, fan_speed[f])]
    /\ fan_last' = [op |-> "enable_traffic", fan |-> f, mode |-> None,
                    raised |-> "None", result |-> FALSE]
    /\ UNCHANGED fan_speed
    /\ UNCHANGED fanOthers

\* A Report_Attributes message with the fan_mode attribute: the entity takes
\* the speed of the mode and writes its state.
FanAttributeReport(f, mode) ==
    /\ fan_available[f]
    /\ fan_speed' = [fan_speed EXCEPT ![f] = VALUE_TO_SPEED(mode)]
    /\ fan_hub' = [fan_hub EXCEPT ![f] = FanHubState(TRUE, VALUE_TO_SPEED(mode))]
    /\ fan_last' = [op |-> "report", fan |-> f, mode |-> Some(mode),
                    raised |-> "None", result |-> FALSE]
    /\ UNCHANGED fan_available
    /\ UNCHANGED fanOthers

\* A caller asks the fan component whether the fan is on.
FanIsOn(f) ==
    /\ fan_last' = [op |-> "is_on", fan |-> f, mode |-> None,
                    raised |-> is_on(f).raised, result |-> is_on(f).result]
    /\ UNCHANGED <<fan_speed, fan_available, fan_hub>>
    /\ UNCHANGED fanOthers

\* The speed argument of a service method: its text ("None" is no speed) and
\* whether it is the very object of the SPEED_OFF constant. The constant is
\* that object; a string "off" that was built from the data of a service call
\* is that object or another one with the same text.
FanSpeedArgs ==
    {a \in [text : Speeds \cup {"None"}, is_SPEED_OFF : BOOLEAN] :
        a.is_SPEED_OFF => a.text = "off"}

\* `speed is SPEED_OFF`
FanSpeedIsOff(speed) == speed.is_SPEED_OFF

FsvcInit ==
    fan_call = [method |-> "__init__", fan |-> "None", arg |-> "None",
                invoked |-> "None", speed |-> "None"]

\* FanEntity.async_set_speed(speed); the service schema requires a speed.
async_set_speed(f, speed) ==
    /\ speed.text # "None"
    /\ fan_call' =
          IF FanSpeedIsOff(speed)
          THEN [method |-> "async_set_speed", fan |-> f, arg |-> speed.text,
                invoked |-> "async_turn_off", speed |-> "None"]
          ELSE [method |-> "async_set_speed", fan |-> f, arg |-> speed.text,
                invoked |-> "set_speed", speed |-> speed.text]
    /\ UNCHANGED fsvcOthers

\* FanEntity.async_turn_on(speed, **kwargs)
async_turn_on(f, speed) ==
    /\ fan_call' =
          IF FanSpeedIsOff(speed)
          THEN [method |-> "async_turn_on", fan |-> f, arg |-> speed.text,
                invoked |-> "async_turn_off", speed |-> "None"]
          ELSE [method |-> "async_turn_on", fan |-> f, arg |-> speed.text,
                invoked |-> "turn_on", speed |-> speed.text]
    /\ UNCHANGED fsvcOthers

FanNext ==
    \/ \E f \in Fans : FanEnableTraffic(f)
    \/ \E f \in Fans, mode \in FanModes : FanAttributeReport(f, mode)
    \/ \E f \in Fans : FanIsOn(f)
    \/ \E f \in Fans, speed \in FanSpeedArgs : async_set_speed(f, speed)
    \/ \E f \in Fans, speed \in FanSpeedArgs : async_turn_on(f, speed)

\* The ZHA fan's state in the hub: unavailable until traffic is enabled, off
\* after that, and after a report on exactly when the reported fan_mode is
\* not zero.
FanZhaState ==
    /\ \A f \in Fans :
          /\ (fan_hub[f].state = "unavailable") = ~fan_available[f]
          /\ fan_hub[f].state = "on" => FanEntityIsOn(fan_speed[f])
    /\ fan_last.op = "enable_traffic" => fan_hub[fan_last.fan].state = "off"
    /\ fan_last.op = "report"
          => (fan_hub[fan_last.fan].state = "on") = (fan_last.mode # Some(0))

\* What the fan component answers: on exactly when the entity's speed is
\* neither off nor None.
FanHelperAnswer ==
    fan_last.op = "is_on"
       => /\ fan_last.raised = "None"
          /\ fan_last.result = (fan_speed[fan_last.fan] \notin {"off", "None"})

\* C12: a fan is on exactly when its current speed is neither off nor None,
\* for the entity's is_on and for the component's is_on alike; the ZHA fan is
\* unavailable until traffic is enabled, then off, and then on exactly when
\* the fan_mode reported last is not zero.
C12_FanOnOffState ==
    FanZhaState /\ FanHelperAnswer

-----------------------------------------------------------------------------
(***************************************************************************)
(* Rachio config flow: validate_input and the steps of ConfigFlow.         *)
(***************************************************************************)

ApiKeys == {"key1", "key2"}

\* What a call of the Rachio API does: it raises one of
\* RACHIO_API_EXCEPTIONS or some other exception, or it returns a response
\* with a status.
ApiOutcomes ==
    {[raises |-> "None", status |-> 200],
     [raises |-> "None", status |-> 401],
     [raises |-> "RachioApiException", status |-> 0],
     [raises |-> "KeyError", status |-> 0]}

\* A variant of validate_input that does not look at the status of
\* person.get.
validate_inputNoSecondStatus(getInfo, get) ==
    IF getInfo.raises = "RachioApiException" THEN "CannotConnect"
    ELSE IF getInfo.raises # "None" THEN getInfo.raises
    ELSE IF getInfo.status # 200 THEN "InvalidAuth"
    ELSE IF get.raises = "RachioApiException" THEN "CannotConnect"
    ELSE IF get.raises # "None" THEN get.raises
    ELSE "None"

\* validate_input: what it raises, "None" when it returns the title. The
\* Rachio API exceptions become CannotConnect, any other exception passes.
validate_input(getInfo, get) ==
    IF getInfo.raises = "RachioApiException" THEN "CannotConnect"
    ELSE IF getInfo.raises # "None" THEN getInfo.raises
    ELSE IF getInfo.status # 200 THEN "InvalidAuth"
    ELSE IF get.raises = "RachioApiException" THEN "CannotConnect"
    ELSE IF get.raises # "None" THEN get.raises
    ELSE IF get.status # 200 THEN "CannotConnect"
    ELSE "None"

\* errors["base"] after the try statement of async_step_user; "None" is the
\* empty dict.
FlowErrors(raised) ==
    CASE raised = "None" -> "None"
      [] raised = "CannotConnect" -> "cannot_connect"
      [] raised = "InvalidAuth" -> "invalid_auth"
      [] OTHER -> "unknown"

async_show_form(errors) ==
    [type |-> "form", step_id |-> "user", errors |-> errors, key |-> "None"]

FlowInit ==
    /\ flow_entries = {}
    /\ flow_result = [type |-> "None", step_id |-> "None", errors |-> "None",
                      key |-> "None"]
    /\ flow_last = [step |-> "__init__", user_input |-> None,
                    getInfo |-> None, get |-> None]

\* ConfigFlow.async_step_user(user_input) as `step` calls it. The API is
\* called only with user input; an entry whose unique id is configured
\* aborts the flow, and the framework stores a created entry.
async_step_user(step, user_input, getInfo, get) ==
    LET errors == IF user_input = None THEN "None"
                  ELSE FlowErrors(validate_input(getInfo, get))
        called == user_input # None
    IN
    /\ flow_last' = [step |-> step, user_input |-> user_input,
                     getInfo |-> IF called THEN Some(getInfo) ELSE None,
                     get |-> IF called THEN Some(get) ELSE None]
    /\ IF user_input # None /\ errors = "None"
       THEN IF user_input[1] \in flow_entries
            THEN /\ flow_result' = [type |-> "abort", step_id |-> "None",
                                    errors |-> "None", key |-> user_input[1]]
                 /\ UNCHANGED flow_entries
            ELSE /\ flow_result' = [type |-> "create_entry",
                                    step_id |-> "None", errors |-> "None",
                                    key |-> user_input[1]]
                 /\ flow_entries' = flow_entries \cup {user_input[1]}
       ELSE /\ flow_result' = async_show_form(errors)
            /\ UNCHANGED flow_entries
    /\ UNCHANGED flowOthers

\* The user step, with or without input.
FlowStepUser(user_input, getInfo, get) ==
    async_step_user("user", user_input, getInfo, get)

\* async_step_homekit: the user step without input.
async_step_homekit ==
    \E o \in ApiOutcomes : async_step_user("homekit", None, o, o)

\* async_step_import: the user step with the imported input.
async_step_import(user_input, getInfo, get) ==
    async_step_user("import", user_input, getInfo, get)

FlowNext ==
    \/ \E u \in {None} \cup {Some(k) : k \in ApiKeys}, o1, o2 \in ApiOutcomes :
          FlowStepUser(u, o1, o2)
    \/ async_step_homekit
    \/ \E k \in ApiKeys, o1, o2 \in ApiOutcomes :
          async_step_import(Some(k), o1, o2)

\* The error the claim names for the outcomes of the two API calls, "None"
\* when both succeed.
FlowClaimedError(getInfo, get) ==
    CASE getInfo.raises = "RachioApiException" -> "cannot_connect"
      [] getInfo.raises = "KeyError" -> "unknown"
      [] getInfo.status # 200 -> "invalid_auth"
      [] get.raises = "RachioApiException" -> "cannot_connect"
      [] get.raises = "KeyError" -> "unknown"
      [] get.status # 200 -> "cannot_connect"
      [] OTHER -> "None"

\* C13: with user input an entry is created only when both API calls
\* succeeded; otherwise the user form is shown again with errors['base']
\* invalid_auth, cannot_connect or unknown as the failure has it. Without
\* user input, the HomeKit step included, the form is shown with no errors
\* and nothing is created.
C13_RachioConfigFlowOutcome ==
    [][/\ \A k \in ApiKeys, o1, o2 \in ApiOutcomes :
             FlowStepUser(Some(k), o1, o2)
             => /\ flow_entries' # flow_entries
                      => /\ FlowClaimedError(o1, o2) = "None"
                         /\ flow_result'.type = "create_entry"
                /\ flow_result'.type = "create_entry"
                      => FlowClaimedError(o1, o2) = "None"
                /\ FlowClaimedError(o1, o2) # "None"
                      => flow_result' = async_show_form(FlowClaimedError(o1, o2))
       /\ (async_step_homekit
           \/ \E o1, o2 \in ApiOutcomes : FlowStepUser(None, o1, o2))
             => /\ flow_result' = async_show_form("None")
                /\ UNCHANGED flow_entries]_vars

\* C13 witness: an entry exists, and the last user step failed at person.get
\* with a status that is not 200 and shows the form with cannot_connect.
C13_Witness ==
    /\ flow_entries # {}
    /\ flow_last.step = "user"
    /\ flow_last.getInfo = Some([raises |-> "None", status |-> 200])
    /\ flow_last.get = Some([raises |-> "None", status |-> 401])
    /\ flow_result = async_show_form("cannot_connect")

-----------------------------------------------------------------------------
(***************************************************************************)
(* The Z-Wave dimmer's conversions on their own: _set_duration,            *)
(* byte_to_zwave_brightness and brightness_state applied to any input.     *)
(***************************************************************************)

MaxTransition == 7700
MaxLevel == 100

\* Transitions in seconds, brightness bytes, and the levels a device reports.
Transitions == 0..MaxTransition
Bytes == 0..255
DeviceLevels == -1..MaxLevel

\* The inputs: a dimmer with or without a dimming-duration value, and no
\* value or an integer.
ConvInit ==
    /\ conv_fn = "None"
    /\ conv_arg \in [dimming : BOOLEAN,
                     value : {None} \cup {Some(x) : x \in -1..MaxTransition}]
    /\ conv_out = [data |-> None, state |-> "None"]

\* _set_duration(**kwargs) on a dimmer with or without a dimming-duration
\* value, whose data was the factory default before; the input is the
\* transition, if any.
ConvSetDuration ==
    /\ conv_fn = "None"
    /\ IF conv_arg.value = None THEN TRUE
       ELSE conv_arg.value[1] \in Transitions
    /\ conv_fn' = "_set_duration"
    /\ conv_out' =
          [data |-> IF conv_arg.dimming
                    THEN _set_duration(Some(255), conv_arg.value)
                    ELSE _set_duration(None, conv_arg.value),
           state |-> "None"]
    /\ UNCHANGED conv_arg
    /\ UNCHANGED convOthers

\* byte_to_zwave_brightness(value)
ConvByteToZwave ==
    /\ conv_fn = "None"
    /\ ~conv_arg.dimming
    /\ conv_arg.value # None
    /\ conv_arg.value[1] \in Bytes
    /\ conv_fn' = "byte_to_zwave_brightness"
    /\ conv_out' = [data |-> Some(byte_to_zwave_brightness(conv_arg.value[1])),
                    state |-> "None"]
    /\ UNCHANGED conv_arg
    /\ UNCHANGED convOthers

\* brightness_state(value) for a value whose data is the input.
ConvBrightnessState ==
    /\ conv_fn = "None"
    /\ ~conv_arg.dimming
    /\ conv_arg.value # None
    /\ conv_arg.value[1] \in DeviceLevels
    /\ conv_fn' = "brightness_state"
    /\ conv_out' =
          [data |-> Some(brightness_state(conv_arg.value[1]).brightness),
           state |-> brightness_state(conv_arg.value[1]).state]
    /\ UNCHANGED conv_arg
    /\ UNCHANGED convOthers

\* The levels of a Z-Wave multilevel switch.
ZwaveLevels == 0..99

\* update_properties() takes the brightness of a device level from
\* brightness_state, and turn_on(brightness=...) called with that brightness
\* hands byte_to_zwave_brightness of it to node.set_dimmer; the input is the
\* device level and the output the level that is written.
ConvTurnOnReported ==
    /\ conv_fn = "None"
    /\ ~conv_arg.dimming
    /\ conv_arg.value # None
    /\ conv_arg.value[1] \in ZwaveLevels
    /\ conv_fn' = "turn_on"
    /\ conv_out' =
          [data |-> Some(byte_to_zwave_brightness(
                            brightness_state(conv_arg.value[1]).brightness)),
           state |-> brightness_state(conv_arg.value[1]).state]
    /\ UNCHANGED conv_arg
    /\ UNCHANGED convOthers

ConvNext ==
    \/ ConvSetDuration
    \/ ConvByteToZwave
    \/ ConvBrightnessState
    \/ ConvTurnOnReported

\* The seconds a dimming-duration byte stands for: 0x00 instant, 0x01-0x7F
\* seconds, 0x80-0xFE minutes.
DurationSeconds(byte) ==
    IF byte <= 127 THEN byte ELSE (byte - 127) * 60

\* C14: without a dimming-duration value _set_duration writes nothing; with
\* one it writes 0xFF for no transition, and for T seconds T up to 127,
\* 0x7F + T div 60 up to 7620 and 0xFE above: a byte in 0x00..0xFE whose
\* duration does not exceed T.
C14_DimmingDurationEncoding ==
    conv_fn = "_set_duration"
       => LET t == conv_arg.value
              out == conv_out.data
          IN
          /\ ~conv_arg.dimming => out = None
          /\ conv_arg.dimming /\ t = None => out = Some(255)
          /\ conv_arg.dimming /\ t # None
                => /\ out # None
                   /\ out[1] \in 0..254
                   /\ t[1] <= 127 => out[1] = t[1]
                   /\ t[1] > 127 /\ t[1] <= 7620
                         => out[1] = 127 + t[1] \div 60
                   /\ t[1] > 7620 => out[1] = 254
                   /\ DurationSeconds(out[1]) <= t[1]

\* C14 witness: a transition above 7620 seconds was clipped to 0xFE.
C14_Witness ==
    /\ conv_fn = "_set_duration"
    /\ conv_arg.dimming
    /\ conv_arg.value # None
    /\ conv_arg.value[1] > 7620
    /\ conv_out.data = Some(254)

\* C15: byte_to_zwave_brightness(b) for b in 0..255 is in 0..99, is 0 exactly
\* for b = 0, is 99 for b = 255 and does not decrease with b;
\* brightness_state(d) is (0, off) for d <= 0 and otherwise
\* (round(d * 255 / 99), on), which is in 1..255 for d in 1..99.
C15_BrightnessScaleConversion ==
    /\ conv_fn = "byte_to_zwave_brightness"
          => LET b == conv_arg.value[1]
                 out == conv_out.data[1]
             IN
             /\ out \in 0..99
             /\ (out = 0) = (b = 0)
             /\ b = 255 => out = 99
             /\ \A lower \in 0..b : byte_to_zwave_brightness(lower) <= out
    /\ conv_fn = "brightness_state"
          => LET d == conv_arg.value[1]
                 out == conv_out.data[1]
             IN
             /\ d <= 0 => out = 0 /\ conv_out.state = "off"
             /\ d > 0 => /\ conv_out.state = "on"
                         /\ 2 * (99 * out - 255 * d) <= 99
                         /\ 2 * (255 * d - 99 * out) <= 99
             /\ d \in 1..99 => out \in 1..255

\* C15 witness: the smallest brightness byte was raised to level 1.
C15_Witness ==
    /\ conv_fn = "byte_to_zwave_brightness"
    /\ conv_arg.value = Some(1)
    /\ conv_out.data = Some(1)

\* ------------------------------------------------------------------------
\* Z-Wave dimmer: the delayed refresh of value_changed, with the Timer and
\* the device taking their steps.
\* ------------------------------------------------------------------------

\* What the entity's Timers and the device still have to do: refreshes that
\* wait for their answer, Timers that are alive, and a value_changed that is
\* about to start its Timer.
ZwLoad ==
    zw_pending + Cardinality({t \in Timers : isAlive(t)})
               + (IF zw_pc = "timer" THEN 1 ELSE 0)

\* A report of the device that starts a Timer is taken only while the Timers
\* and the refreshes it leads to fit MaxTimers and MaxPending, so that no
\* Timer thread and no answer ever waits for a free place.
ZwDeviceReportInRoom(level) ==
    /\ (ZwRefreshEnabled /\ ~_refreshing)
          => (ZwLoad < MaxTimers /\ ZwLoad < MaxPending)
    /\ ZwDeviceReport(level)

ZwLiveNext ==
    \/ \E b \in BrightnessArgs, tr \in TransitionArgs, ok \in BOOLEAN :
          ZwTurnOn(b, tr, ok)
    \/ \E tr \in TransitionArgs, ok \in BOOLEAN : ZwTurnOff(tr, ok)
    \/ \E l \in Levels : ZwDeviceReportInRoom(l)
    \/ \E l \in Levels : ZwRefreshAnswer(l)
    \/ \E t \in Timers : ZwValueChangedTimer(t)
    \/ \E t \in Timers : ZwTimerFires(t)
    \/ \E t \in Timers : ZwTimerRefreshes(t)

\* value_changed has returned from its Timer branch: the change was not
\* passed to the base method.
ZwSuppressed ==
    _refresh_value /\ zw_last = [op |-> "value_changed", ok |-> FALSE]

\* The base value_changed has run.
ZwForwarded == zw_last = [op |-> "value_changed", ok |-> TRUE]

\* A notification of a changed value is delivered to value_changed.
ZwNotified == \E l \in Levels : ZwDeviceReport(l) \/ ZwRefreshAnswer(l)

ZwWaiting == {t \in Timers : zw_timers[t] = "waiting"}

\* At most one Timer waits, and it is the one the entity holds in _timer.
ZwOneTimerPending ==
    /\ Cardinality(ZwWaiting) <= 1
    /\ \A t \in ZwWaiting : _timer = Some(t)

\* A value change that starts a Timer leaves exactly one Timer waiting, the
\* new one.
ZwBurstCoalesced ==
    [][\A t \in Timers : ZwValueChangedTimer(t) => ZwWaiting' = {t}]_vars

\* The value change that answers a refresh runs the base method and does not
\* go on to start a Timer.
ZwNoRefreshLoop ==
    [][(\E l \in Levels : ZwRefreshAnswer(l))
          => zw_pc' = "idle" /\ ZwForwarded']_vars

\* C21: with refresh_value enabled at most one refresh Timer is pending at
\* any time, a value change that arrives while a Timer is pending cancels it
\* and starts a new one, and a value change triggered by a refresh never
\* starts another Timer.
C21_RefreshTimerCoalescing ==
    /\ []ZwOneTimerPending
    /\ ZwBurstCoalesced
    /\ ZwNoRefreshLoop

\* C22: for every device level z in 0..99, writing back the brightness that
\* brightness_state reports for z sets the device to z again:
\* byte_to_zwave_brightness(brightness_state(z).brightness) = z.
C22_BrightnessRoundTrip ==
    conv_fn = "turn_on" => conv_out.data[1] = conv_arg.value[1]

\* ------------------------------------------------------------------------
\* Huawei LTE sensors (components/huawei_lte/sensor.py).
\* ------------------------------------------------------------------------

KEY_DEVICE_SIGNAL == "device_signal"

\* Two sensors of one router, under the same key: one without a formatter of
\* its own and one with the formatter of SENSOR_META.
HlSensors ==
    {[key |-> KEY_DEVICE_SIGNAL, item |-> "rssi"],
     [key |-> KEY_DEVICE_SIGNAL, item |-> "mode"]}

HlKeys == {s.key : s \in HlSensors}

\* Python values: None, a str (a sequence of characters) and a float (of
\* an integral value here); HlAbsent stands for a key or item that is not in
\* router.data.
HlNone == [type |-> "None", text |-> <<>>, num |-> 0]
HlStr(t) == [type |-> "str", text |-> t, num |-> 0]
HlFloat(n) == [type |-> "float", text |-> <<>>, num |-> n]
HlAbsent == [type |-> "absent", text |-> <<>>, num |-> 0]

\* The _unit attribute: not set (attr.ib(init=False) without a default),
\* None or a str.
HlUnitUnset == [kind |-> "unset", text |-> <<>>]
HlUnitNone == [kind |-> "None", text |-> <<>>]
HlUnit(t) == [kind |-> "str", text |-> t]

STATE_UNKNOWN == HlStr(<<"u", "n", "k", "n", "o", "w", "n">>)

\* What the router reports for the items: -71dBm, >=-51dBm, 15 dB, 7, dBm
\* and None for the signal strength, 0, 7 and 5 for the mode.
HlRouterValues(s) ==
    IF s.item = "rssi"
    THEN {HlStr(<<"-", "7", "1", "d", "B", "m">>),
          HlStr(<<">", "=", "-", "5", "1", "d", "B", "m">>),
          HlStr(<<"1", "5", " ", "d", "B">>),
          HlStr(<<"7">>),
          HlStr(<<"d", "B", "m">>),
          HlNone}
    ELSE {HlStr(<<"0">>), HlStr(<<"7">>), HlStr(<<"5">>)}

HlPrefixChars == {">", "=", "<"}
HlSpaces == {" "}
HlDigits == {"0", "1", "2", "3", "4", "5", "6", "7", "8", "9"}
HlLetters ==
    {"a", "b", "c", "d", "e", "f", "g", "h", "i", "j", "k", "l", "m",
     "n", "o", "p", "q", "r", "s", "t", "u", "v", "w", "x", "y", "z",
     "A", "B", "C", "D", "E", "F", "G", "H", "I", "J", "K", "L", "M",
     "N", "O", "P", "Q", "R", "S", "T", "U", "V", "W", "X", "Y", "Z"}

HlAllIn(t, S) == \A i \in 1..Len(t) : t[i] \in S

HlFrom(t, i) == SubSeq(t, i, Len(t))

\* The ways r matches \s*(?P<unit>[a-zA-Z]+)\s*$ : the unit is r[i+1..j].
HlUnitSplits(r) ==
    {ij \in (0..Len(r)) \X (1..Len(r)) :
        /\ ij[1] < ij[2]
        /\ HlAllIn(SubSeq(r, 1, ij[1]), HlSpaces)
        /\ HlAllIn(SubSeq(r, ij[1] + 1, ij[2]), HlLetters)
        /\ HlAllIn(HlFrom(r, ij[2] + 1), HlSpaces)}

\* The ways t matches ([>=<]*)(?P<value>.+?)\s*(?P<unit>[a-zA-Z]+)\s*$ :
\* a prefix of p characters and a value of v characters.
HlMatches(t) ==
    {pv \in (0..Len(t)) \X (1..Len(t)) :
        /\ pv[1] + pv[2] <= Len(t)
        /\ HlAllIn(SubSeq(t, 1, pv[1]), HlPrefixChars)
        /\ HlUnitSplits(HlFrom(t, pv[1] + pv[2] + 1)) # {}}

\* re.match: the longest prefix that leads to a match (greedy), and with it
\* the shortest value (lazy).
HlMatch(t) ==
    CHOOSE pv \in HlMatches(t) :
        \A qw \in HlMatches(t) :
            \/ qw[1] < pv[1]
            \/ qw[1] = pv[1] /\ pv[2] <= qw[2]

HlDigitValue ==
    [c \in HlDigits |->
        CASE c = "0" -> 0 [] c = "1" -> 1 [] c = "2" -> 2 [] c = "3" -> 3
          [] c = "4" -> 4 [] c = "5" -> 5 [] c = "6" -> 6 [] c = "7" -> 7
          [] c = "8" -> 8 [] c = "9" -> 9]

RECURSIVE HlDecimal(_)
HlDecimal(t) ==
    IF t = <<>> THEN 0
    ELSE 10 * HlDecimal(SubSeq(t, 1, Len(t) - 1)) + HlDigitValue[t[Len(t)]]

\* float(t) for a text of signs, digits, letters and spaces without "e",
\* "inf" or "nan" spellings of a number: a sign, if any, and digits give the
\* number, anything else raises ValueError.
HlParseFloat(t) ==
    LET signed == t # <<>> /\ t[1] \in {"-", "+"}
        digits == IF signed THEN HlFrom(t, 2) ELSE t
    IN  IF digits # <<>> /\ HlAllIn(digits, HlDigits)
        THEN [ok |-> TRUE,
              num |-> IF signed /\ t[1] = "-" THEN 0 - HlDecimal(digits)
                      ELSE HlDecimal(digits)]
        ELSE [ok |-> FALSE, num |-> 0]

format_default(value) ==
    IF value.type # "str" \/ HlMatches(value.text) = {}
    THEN [value |-> value, unit |-> HlUnitNone]
    ELSE LET pv == HlMatch(value.text)
             number == HlParseFloat(SubSeq(value.text, pv[1] + 1,
                                           pv[1] + pv[2]))
             rest == HlFrom(value.text, pv[1] + pv[2] + 1)
             ij == CHOOSE ij \in HlUnitSplits(rest) : TRUE
         IN  IF number.ok
             THEN [value |-> HlFloat(number.num),
                   unit |-> HlUnit(SubSeq(rest, ij[1] + 1, ij[2]))]
             ELSE [value |-> value, unit |-> HlUnitNone]

\* SENSOR_META[(KEY_DEVICE_SIGNAL, "mode")]["formatter"]
HlModeFormatter(x) ==
    [value |-> IF x = HlStr(<<"0">>) THEN HlStr(<<"2", "G">>)
               ELSE IF x = HlStr(<<"2">>) THEN HlStr(<<"3", "G">>)
               ELSE IF x = HlStr(<<"7">>) THEN HlStr(<<"4", "G">>)
               ELSE HlStr(<<"U", "n", "k", "n", "o", "w", "n">>),
     unit |-> HlUnitNone]

\* meta.get("formatter"), format_default if it is not callable.
HlFormatter(s, value) ==
    IF s.item = "mode" THEN HlModeFormatter(value) ELSE format_default(value)

\* formatter(value) for every sensor and every value its item can have.
HlFormatted ==
    [s \in HlSensors |-> [v \in HlRouterValues(s) |-> HlFormatter(s, v)]]

\* f"{SENSOR_DOMAIN}/{self.item}"
HlSubscription(s) == <<"sensor", "/", s.item>>

\* A variant of async_update that forgets the state when the value is missing.
HuaweiLteSensor_async_updateForgets(s, data, old) ==
    IF data = HlAbsent
    THEN [state |-> STATE_UNKNOWN, unit |-> HlUnitNone, available |-> FALSE]
    ELSE [state |-> HlFormatted[s][data].value,
          unit |-> HlFormatted[s][data].unit,
          available |-> TRUE]

\* async_update of sensor s with router.data[key][item] = data (HlAbsent
\* raises the KeyError that is caught): the new _state, _unit and _available.
HuaweiLteSensor_async_update(s, data, old) ==
    IF data = HlAbsent
    THEN [state |-> old.state, unit |-> old.unit, available |-> FALSE]
    ELSE [state |-> HlFormatted[s][data].value,
          unit |-> HlFormatted[s][data].unit,
          available |-> TRUE]

HlFields(s) ==
    [state |-> hl_state[s], unit |-> hl_unit[s], available |-> hl_available[s]]

HlInit ==
    /\ hl_data = [s \in HlSensors |->
                     IF s.item = "mode" THEN HlStr(<<"7">>)
                     ELSE HlStr(<<"-", "7", "1", "d", "B", "m">>)]
    /\ hl_state = [s \in HlSensors |-> STATE_UNKNOWN]
    /\ hl_unit = [s \in HlSensors |-> HlUnitUnset]
    /\ hl_available = [s \in HlSensors |-> TRUE]
    /\ hl_subscriptions = [k \in HlKeys |-> {}]
    /\ hl_added = [s \in HlSensors |-> FALSE]
    /\ hl_last = [op |-> "__init__", sensor |-> "None", raised |-> "None"]

\* The router's data is refreshed: the item gets a value or is missing.
HlRouterUpdate(s, value) ==
    /\ hl_data[s] # value
    /\ hl_data' = [hl_data EXCEPT ![s] = value]
    /\ hl_last' = [op |-> "router_update", sensor |-> s.item, raised |-> "None"]
    /\ UNCHANGED <<hl_state, hl_unit, hl_available, hl_subscriptions, hl_added>>
    /\ UNCHANGED hlOthers

\* The state, unit and availability that async_update leaves in sensor s.
HlRunUpdate(s) ==
    LET new == HuaweiLteSensor_async_update(s, hl_data[s], HlFields(s))
    IN  /\ hl_state' = [hl_state EXCEPT ![s] = new.state]
        /\ hl_unit' = [hl_unit EXCEPT ![s] = new.unit]
        /\ hl_available' = [hl_available EXCEPT ![s] = new.available]

\* async_add_entities(sensors, True) for a sensor that async_setup_entry made
\* from an item of router.data (the data may have been refreshed since):
\* async_update, then async_added_to_hass.
HlAddedToHass(s) ==
    /\ ~hl_added[s]
    /\ HlRunUpdate(s)
    /\ hl_subscriptions' =
          [hl_subscriptions EXCEPT ![s.key] = @ \cup {HlSubscription(s)}]
    /\ hl_added' = [hl_added EXCEPT ![s] = TRUE]
    /\ hl_last' = [op |-> "async_added_to_hass", sensor |-> s.item,
                   raised |-> "None"]
    /\ UNCHANGED hl_data
    /\ UNCHANGED hlOthers

\* async_update of a sensor that is in the hub.
HlAsyncUpdate(s) ==
    /\ hl_added[s]
    /\ HlRunUpdate(s)
    /\ hl_last' = [op |-> "async_update", sensor |-> s.item, raised |-> "None"]
    /\ UNCHANGED <<hl_data, hl_subscriptions, hl_added>>
    /\ UNCHANGED hlOthers

\* async_will_remove_from_hass; set.remove raises KeyError for a subscription
\* that is not in the set.
HlWillRemoveFromHass(s) ==
    /\ hl_added[s]
    /\ hl_subscriptions' =
          [hl_subscriptions EXCEPT ![s.key] = @ \ {HlSubscription(s)}]
    /\ hl_added' = [hl_added EXCEPT ![s] = FALSE]
    /\ hl_last' = [op |-> "async_will_remove_from_hass", sensor |-> s.item,
                   raised |-> IF HlSubscription(s) \in hl_subscriptions[s.key]
                              THEN "None" ELSE "KeyError"]
    /\ UNCHANGED <<hl_data, hl_state, hl_unit, hl_available>>
    /\ UNCHANGED hlOthers

HlNext ==
    \/ \E s \in HlSensors :
          \E v \in HlRouterValues(s) \cup {HlAbsent} : HlRouterUpdate(s, v)
    \/ \E s \in HlSensors : HlAddedToHass(s)
    \/ \E s \in HlSensors : HlAsyncUpdate(s)
    \/ \E s \in HlSensors : HlWillRemoveFromHass(s)

\* A step that runs async_update of sensor s.
HlUpdated(s) == HlAddedToHass(s) \/ HlAsyncUpdate(s)

\* C23: when async_update finds no value for the sensor's key and item the
\* sensor becomes unavailable and keeps its state and unit, and nothing is
\* raised; when the value is there the sensor becomes available and its state
\* and unit are the formatter's result; and the sensor's subscription is in
\* the router's subscription set of its key exactly while the sensor is added
\* to the hub.
C23_HuaweiStaleState ==
    /\ [][\A s \in HlSensors :
            HlUpdated(s) =>
               /\ hl_last'.raised = "None"
               /\ IF hl_data[s] = HlAbsent
                  THEN /\ ~hl_available'[s]
                       /\ hl_state'[s] = hl_state[s]
                       /\ hl_unit'[s] = hl_unit[s]
                  ELSE /\ hl_available'[s]
                       /\ hl_state'[s] = HlFormatted[s][hl_data[s]].value
                       /\ hl_unit'[s] = HlFormatted[s][hl_data[s]].unit]_vars
    /\ [](\A s \in HlSensors :
            hl_added[s] <=> HlSubscription(s) \in hl_subscriptions[s.key])
    /\ [](hl_last.raised = "None")

\* A sensor in the hub that has lost its value: it is unavailable and still
\* shows the signal strength and the unit it had read before, while the other
\* sensor of the key has been removed from the hub.
C23_Witness ==
    LET rssi == [key |-> KEY_DEVICE_SIGNAL, item |-> "rssi"]
        mode == [key |-> KEY_DEVICE_SIGNAL, item |-> "mode"]
    IN  /\ hl_last = [op |-> "async_update", sensor |-> "rssi",
                      raised |-> "None"]
        /\ hl_data[rssi] = HlAbsent
        /\ ~hl_available[rssi]
        /\ hl_state[rssi] = HlFloat(0 - 51)
        /\ hl_unit[rssi] = HlUnit(<<"d", "B", "m">>)
        /\ hl_subscriptions[KEY_DEVICE_SIGNAL] = {HlSubscription(rssi)}
        /\ ~hl_added[mode]
        /\ hl_state[mode] = HlStr(<<"4", "G">>)

\* C24: async_set_speed(speed) and async_turn_on(speed) delegate to
\* async_turn_off when the speed equals "off" and otherwise hand that speed
\* to set_speed or turn_on, so that set_speed and turn_on are never invoked
\* with the speed "off", from wherever the speed string comes.
C24_FanSpeedOffDelegation ==
    /\ fan_call.method \in {"async_set_speed", "async_turn_on"}
          => IF fan_call.arg = "off"
             THEN fan_call.invoked = "async_turn_off"
             ELSE /\ fan_call.invoked =
                        (IF fan_call.method = "async_set_speed"
                         THEN "set_speed" ELSE "turn_on")
                  /\ fan_call.speed = fan_call.arg
    /\ fan_call.invoked \in {"set_speed", "turn_on"}
          => fan_call.speed # "off"

-----------------------------------------------------------------------------
(***************************************************************************)
(* The specifications. The adapters do not know of each other: each has a  *)
(* specification of its own, in which the others rest in one initial state.*)
(***************************************************************************)

Init ==
    /\ DzInit /\ HeosInit /\ TcInit /\ TeslaInit /\ CmdInit /\ ZwInit
    /\ RachioInit /\ MqttInit /\ DiscInit /\ FanInit /\ FlowInit /\ ConvInit /\ HlInit /\ FsvcInit

Next ==
    \/ DzNext \/ HeosNext \/ TcNext \/ TeslaNext \/ ZwNext
    \/ RachioNext \/ MqttNext \/ DiscNext \/ FanNext
    \/ FlowNext \/ ConvNext \/ HlNext

Spec == Init /\ [][Next]_vars

\* One initial state of the adapters whose setup draws a configuration.
DzIdle == DzInit /\ dz_allow_clip = FALSE
ZwIdle ==
    ZwInit /\ ~_refresh_value /\ zw_primary = 0 /\ zw_dimming_duration = None
RachioIdle == RachioInit /\ rachio_state = [c \in Controllers |-> Some(TRUE)]
ConvIdle == ConvInit /\ conv_arg = [dimming |-> FALSE, value |-> None]

InitDeconz ==
    DzInit /\ HeosInit /\ TcInit /\ TeslaInit /\ CmdInit /\ ZwIdle
    /\ RachioIdle /\ MqttInit /\ DiscInit /\ FanInit /\ FlowInit /\ ConvIdle /\ HlInit /\ FsvcInit

SpecDeconz ==
    /\ InitDeconz
    /\ [][DzNext]_vars

InitHeos ==
    DzIdle /\ HeosInit /\ TcInit /\ TeslaInit /\ CmdInit /\ ZwIdle
    /\ RachioIdle /\ MqttInit /\ DiscInit /\ FanInit /\ FlowInit /\ ConvIdle /\ HlInit /\ FsvcInit

SpecHeos ==
    /\ InitHeos
    /\ [][HeosNext]_vars

InitTotalConnect ==
    DzIdle /\ HeosInit /\ TcInit /\ TeslaInit /\ CmdInit /\ ZwIdle
    /\ RachioIdle /\ MqttInit /\ DiscInit /\ FanInit /\ FlowInit /\ ConvIdle /\ HlInit /\ FsvcInit

SpecTotalConnect ==
    /\ InitTotalConnect
    /\ [][TcNext]_vars

\* The command boundary of the TotalConnect and Tesla entities: their commands
\* and updates, with the panel's status at the vendor left as it is.
CommandsNext ==
    \/ \E f \in CmdFailures : TcUpdate(f)
    \/ \E c \in TcCommands, f \in CmdFailures : TcCommand(c, f)
    \/ TeslaNext

InitCommands ==
    DzIdle /\ HeosInit /\ TcInit /\ TeslaInit /\ CmdInit /\ ZwIdle
    /\ RachioIdle /\ MqttInit /\ DiscInit /\ FanInit /\ FlowInit /\ ConvIdle /\ HlInit /\ FsvcInit

SpecCommands ==
    /\ InitCommands
    /\ [][CommandsNext]_vars

InitZwave ==
    DzIdle /\ HeosInit /\ TcInit /\ TeslaInit /\ CmdInit /\ ZwInit
    /\ RachioIdle /\ MqttInit /\ DiscInit /\ FanInit /\ FlowInit /\ ConvIdle /\ HlInit /\ FsvcInit

SpecZwave ==
    /\ InitZwave
    /\ [][ZwNext]_vars

InitRachio ==
    DzIdle /\ HeosInit /\ TcInit /\ TeslaInit /\ CmdInit /\ ZwIdle
    /\ RachioInit /\ MqttInit /\ DiscInit /\ FanInit /\ FlowInit /\ ConvIdle /\ HlInit /\ FsvcInit

SpecRachio ==
    /\ InitRachio
    /\ [][RachioNext]_vars

InitMqtt ==
    DzIdle /\ HeosInit /\ TcInit /\ TeslaInit /\ CmdInit /\ ZwIdle
    /\ RachioIdle /\ MqttInit /\ DiscInit /\ FanInit /\ FlowInit /\ ConvIdle /\ HlInit /\ FsvcInit

SpecMqtt ==
    /\ InitMqtt
    /\ [][MqttNext]_vars

InitDiscovery ==
    DzIdle /\ HeosInit /\ TcInit /\ TeslaInit /\ CmdInit /\ ZwIdle
    /\ RachioIdle /\ MqttInit /\ DiscInit /\ FanInit /\ FlowInit /\ ConvIdle /\ HlInit /\ FsvcInit

SpecDiscovery ==
    /\ InitDiscovery
    /\ [][DiscNext]_vars

InitFan ==
    DzIdle /\ HeosInit /\ TcInit /\ TeslaInit /\ CmdInit /\ ZwIdle
    /\ RachioIdle /\ MqttInit /\ DiscInit /\ FanInit /\ FlowInit /\ ConvIdle /\ HlInit /\ FsvcInit

SpecFan ==
    /\ InitFan
    /\ [][FanNext]_vars

InitFlow ==
    DzIdle /\ HeosInit /\ TcInit /\ TeslaInit /\ CmdInit /\ ZwIdle
    /\ RachioIdle /\ MqttInit /\ DiscInit /\ FanInit /\ FlowInit /\ ConvIdle /\ HlInit /\ FsvcInit

SpecFlow ==
    /\ InitFlow
    /\ [][FlowNext]_vars

InitConversions ==
    DzIdle /\ HeosInit /\ TcInit /\ TeslaInit /\ CmdInit /\ ZwIdle
    /\ RachioIdle /\ MqttInit /\ DiscInit /\ FanInit /\ FlowInit /\ ConvInit /\ HlInit /\ FsvcInit

SpecConversions ==
    /\ InitConversions
    /\ [][ConvNext]_vars

\* The Z-Wave dimmer with its Timer threads and the device making progress:
\* value_changed goes on to start its Timer, a waiting Timer's delay passes,
\* a Timer thread that has started reaches the refresh, and a refresh that is
\* outstanding is answered (the answer is delivered between two callbacks,
\* so it is enabled again and again rather than without interruption).
SpecZwaveLive ==
    /\ InitZwave
    /\ [][ZwLiveNext]_vars
    /\ WF_vars(\E t \in Timers : ZwValueChangedTimer(t))
    /\ WF_vars(\E t \in Timers : ZwTimerFires(t))
    /\ WF_vars(\E t \in Timers : ZwTimerRefreshes(t))
    /\ SF_vars(\E l \in Levels : ZwRefreshAnswer(l))

\* The Huawei LTE sensors alone.
InitHuawei ==
    DzIdle /\ HeosInit /\ TcInit /\ TeslaInit /\ CmdInit /\ ZwIdle
    /\ RachioIdle /\ MqttInit /\ DiscInit /\ FanInit /\ FlowInit /\ ConvIdle /\ HlInit /\ FsvcInit

SpecHuawei ==
    /\ InitHuawei
    /\ [][HlNext]_vars

=============================================================================
